---- MODULE Spec2Model ----
(***************************************************************************)
(* TechTrends: the article store (src/src/database.py), the processor      *)
(* (src/src/data_processing.py), the source adapters                       *)
(* (src/src/scraper_hackernews.py, src/src/api_devto.py) and the load      *)
(* pipeline (src/app/streamlit_app.py) as a state machine.                 *)
(*                                                                         *)
(* Text is modelled by TLA+ strings (Len, SubSeq and \o work on them).     *)
(* A Python dict is a function whose DOMAIN is the set of keys it holds,   *)
(* so a missing key is really missing. SQL NULL / Python None is the       *)
(* marker NULL. The articles table is the sequence of its rows in rowid    *)
(* order (the id column itself is not modelled: a row's position gives the *)
(* rowid order, and no operation reads the id). `connections` counts the   *)
(* connections that are open between two operations, `clock` is the wall   *)
(* clock in seconds.                                                       *)
(***************************************************************************)
EXTENDS Integers, Sequences, FiniteSets, TLC

VARIABLES articles, search_history, last, writers, connections, clock

vars == <<articles, search_history, last, writers, connections, clock>>

----------------------------------------------------------------------------
(* Bounds of the model *)

MaxBatch == 2
MaxSearchBatch == 1
MaxSearches == 2
MaxLimit == 2
MaxRaw == 1
MaxRows == 2
MaxGroups == 2
MaxTop == 2
MaxEntries == 2

----------------------------------------------------------------------------
(* Values *)

NULL == "<NULL>"

NoKey == "<no key>"

\* dict.get(key, default)
Get(d, key, default) == IF key \in DOMAIN d THEN d[key] ELSE default

\* dict.get(key): None when the key is missing
GetOrNone(d, key) == Get(d, key, NULL)

Range(s) == { s[i] : i \in DOMAIN s }

Min2(a, b) == IF a < b THEN a ELSE b

----------------------------------------------------------------------------
(* Text *)

Chr(s, i) == SubSeq(s, i, i)

Rest(s) == SubSeq(s, 2, Len(s))

UpperAscii == "ABCDEFGHIJKLMNOPQRSTUVWXYZ"
LowerAscii == "abcdefghijklmnopqrstuvwxyz"

\* the lower-case letter of every upper-case ASCII letter
AsciiFold ==
    [ c \in { Chr(UpperAscii, i) : i \in 1..Len(UpperAscii) } |->
        Chr(LowerAscii, CHOOSE i \in 1..Len(UpperAscii) : Chr(UpperAscii, i) = c) ]

\* one character folded as SQLite's LIKE folds it: ASCII letters only
AsciiLowerChar(c) == IF c \in DOMAIN AsciiFold THEN AsciiFold[c] ELSE c

\* str.lower() of Python, on the characters the model's texts use
RECURSIVE lower(_)
lower(s) == IF s = "" THEN "" ELSE AsciiLowerChar(Chr(s, 1)) \o lower(Rest(s))

\* k in t (Python's substring test)
Contains(t, k) ==
    \E i \in 0..(Len(t) - Len(k)) : SubSeq(t, i + 1, i + Len(k)) = k

\* SQLite's LIKE without ESCAPE: % matches any run of characters, _ matches
\* exactly one character, every other character matches itself up to ASCII case
RECURSIVE Like(_, _)
Like(text, pattern) ==
    IF pattern = "" THEN text = ""
    ELSE IF Chr(pattern, 1) = "%"
         THEN \E i \in 0..Len(text) : Like(SubSeq(text, i + 1, Len(text)), Rest(pattern))
    ELSE IF text = "" THEN FALSE
    ELSE IF Chr(pattern, 1) = "_" THEN Like(Rest(text), Rest(pattern))
    ELSE /\ AsciiLowerChar(Chr(pattern, 1)) = AsciiLowerChar(Chr(text, 1))
         /\ Like(Rest(text), Rest(pattern))

\* ",".join(tags)
RECURSIVE Join(_, _)
Join(sep, xs) ==
    IF xs = <<>> THEN ""
    ELSE IF Len(xs) = 1 THEN xs[1]
    ELSE xs[1] \o sep \o Join(sep, Tail(xs))

\* SQLite compares TEXT with memcmp: rank of a character in byte order
ByteOrder == "%+-.0123456789:ABCDEFGHIJKLMNOPQRSTUVWXYZ_abcdefghijklmnopqrstuvwxyz"

ByteRank(c) == CHOOSE i \in 1..Len(ByteOrder) : Chr(ByteOrder, i) = c

RECURSIVE TextLess(_, _)
TextLess(a, b) ==
    IF b = "" THEN FALSE
    ELSE IF a = "" THEN TRUE
    ELSE IF Chr(a, 1) = Chr(b, 1) THEN TextLess(Rest(a), Rest(b))
    ELSE ByteRank(Chr(a, 1)) < ByteRank(Chr(b, 1))

\* the order of ORDER BY on a nullable TEXT column: NULL sorts before any text
SqlLess(a, b) ==
    IF b = NULL THEN FALSE
    ELSE IF a = NULL THEN TRUE
    ELSE TextLess(a, b)

----------------------------------------------------------------------------
(* Store: src/src/database.py *)

\* `last` is the call the caller is looking at: the operation, its argument,
\* what it returned, whether it raised, and the articles table before it.
\* The program is sequential: the next call starts once the caller has taken
\* the result of the previous one (Continue).
NoCall == [ op |-> "none", arg |-> <<>>, ret |-> <<>>, before |-> <<>>,
            hbefore |-> <<>>, raised |-> FALSE ]

Idle == last.op = "none"

Call(op, arg, ret) ==
    [ op |-> op, arg |-> arg, ret |-> ret, before |-> articles,
      hbefore |-> search_history, raised |-> FALSE ]

Continue ==
    /\ ~Idle
    /\ \A w \in DOMAIN writers : writers[w].pc = "done"
    /\ last' = NoCall
    /\ writers' = <<>>
    /\ UNCHANGED <<articles, search_history, connections, clock>>

IsoSuffix == "T00:00:00"

NaT == "NaT"

\* a pandas Timestamp is written ts:<date>; every other value is a plain str
IsTimestamp(v) == Len(v) > 3 /\ SubSeq(v, 1, 3) = "ts:"

\* Database._to_str_date: None and NaT/nan give None, a Timestamp gives its
\* isoformat(), any other value its str()
to_str_date(value) ==
    IF value = NULL THEN NULL
    ELSE IF value \in {"NaT", "nan"} THEN NULL
    ELSE IF IsTimestamp(value) THEN SubSeq(value, 4, Len(value)) \o IsoSuffix
    ELSE value

\* Python's  a or b  on the values a date field can hold
PyOr(a, b) == IF a = NULL \/ a = "" THEN b ELSE a

\* the tags value bound to the statement: a list is joined with ","
FlattenTags(tags) == Join(",", tags)

\* the parameter tuple insert_articles binds for one article
Row(article) ==
    [ title        |-> Get(article, "title", ""),
      url          |-> Get(article, "url", ""),
      source       |-> Get(article, "source", ""),
      author       |-> Get(article, "author", ""),
      description  |-> Get(article, "description", ""),
      published_at |-> to_str_date(PyOr(GetOrNone(article, "published_at"),
                                        GetOrNone(article, "fetched_at"))),
      scraped_at   |-> to_str_date(GetOrNone(article, "scraped_at")),
      points       |-> Get(article, "points", 0),
      comments     |-> Get(article, "comments", 0),
      reactions    |-> Get(article, "reactions", 0),
      reading_time |-> Get(article, "reading_time", 0),
      category     |-> Get(article, "category", ""),
      tags         |-> FlattenTags(Get(article, "tags", <<>>)) ]

\* mutant: the table without UNIQUE(title, source)
ViolatesConstraintNoPair(table, row) ==
    \/ row.title = NULL
    \/ row.source = NULL
    \/ \E i \in DOMAIN table : row.url # NULL /\ table[i].url = row.url

\* mutant: the url column without UNIQUE
ViolatesConstraintNoUrl(table, row) ==
    \/ row.title = NULL
    \/ row.source = NULL
    \/ \E i \in DOMAIN table :
          table[i].title = row.title /\ table[i].source = row.source

\* the constraints of CREATE TABLE articles: title and source NOT NULL,
\* url UNIQUE (NULLs never collide), UNIQUE(title, source)
ViolatesConstraint(table, row) ==
    \/ row.title = NULL
    \/ row.source = NULL
    \/ \E i \in DOMAIN table :
          \/ (row.url # NULL /\ table[i].url = row.url)
          \/ (table[i].title = row.title /\ table[i].source = row.source)

\* mutant: INSERT OR REPLACE, which deletes the rows the new row collides
\* with and then inserts it
InsertOrReplace(table, row) ==
    IF row.title = NULL \/ row.source = NULL
    THEN [table |-> table, rowcount |-> 0]
    ELSE [table |-> Append(SelectSeq(table, LAMBDA r :
                               ~(\/ (row.url # NULL /\ r.url = row.url)
                                 \/ (r.title = row.title /\ r.source = row.source))),
                           row),
          rowcount |-> 1]

\* INSERT OR IGNORE of one row: the table after it and cursor.rowcount
InsertOrIgnore(table, row) ==
    IF ViolatesConstraint(table, row)
    THEN [table |-> table, rowcount |-> 0]
    ELSE [table |-> Append(table, row), rowcount |-> 1]

\* mutant: the loop counts every record it executes, ignored or not
RECURSIVE InsertLoopCountAll(_, _, _)
InsertLoopCountAll(table, batch, inserted) ==
    IF batch = <<>> THEN [table |-> table, inserted |-> inserted]
    ELSE InsertLoopCountAll(InsertOrIgnore(table, Row(Head(batch))).table,
                            Tail(batch), inserted + 1)

\* the for loop of insert_articles over the batch
RECURSIVE InsertLoop(_, _, _)
InsertLoop(table, batch, inserted) ==
    IF batch = <<>> THEN [table |-> table, inserted |-> inserted]
    ELSE LET r == InsertOrIgnore(table, Row(Head(batch)))
         IN InsertLoop(r.table, Tail(batch),
                       IF r.rowcount > 0 THEN inserted + 1 ELSE inserted)

\* Database.insert_articles: an empty batch returns 0 at once; otherwise the
\* loop runs, the transaction commits and the count is returned
insert_articles(batch) ==
    LET r == InsertLoop(articles, batch, 0)
    IN /\ Idle
       /\ articles' = (IF batch = <<>> THEN articles ELSE r.table)
       /\ last' = Call("insert_articles", batch,
                       IF batch = <<>> THEN 0 ELSE r.inserted)
       /\ UNCHANGED <<search_history, writers, connections, clock>>

\* the rows of `table` at the positions `sel`, in every order ORDER BY
\* published_at DESC allows (SQL leaves the order of equal keys open)
OrderedBy(table, sel) ==
    { [i \in 1..Cardinality(sel) |-> table[p[i]]] :
        p \in { q \in [1..Cardinality(sel) -> sel] :
                  /\ \A i, j \in 1..Cardinality(sel) : i # j => q[i] # q[j]
                  /\ \A i, j \in 1..Cardinality(sel) :
                        i < j => ~SqlLess(table[q[i]].published_at,
                                          table[q[j]].published_at) } }

\* LIMIT n of SQLite: a negative n is no limit
SqlLimit(rows, n) == IF n < 0 THEN rows ELSE SubSeq(rows, 1, Min2(n, Len(rows)))

\* the optional limit argument: <<>> is None, <<n>> the integer n
NoLimit == <<>>

\* get_all_articles builds the query:  if limit:  appends LIMIT only for a
\* limit that is neither None nor 0
ApplyLimit(rows, limit) ==
    IF limit # NoLimit /\ limit[1] # 0 THEN SqlLimit(rows, limit[1]) ELSE rows

\* a read leaves both tables alone and records what it returned
Returns(op, arg, ret) ==
    /\ Idle
    /\ last' = Call(op, arg, ret)
    /\ UNCHANGED <<articles, search_history, writers, connections, clock>>

\* Database.get_all_articles
AllArticles(table, limit) ==
    { ApplyLimit(rows, limit) : rows \in OrderedBy(table, DOMAIN table) }

get_all_articles(limit) ==
    \E df \in AllArticles(articles, limit) :
        Returns("get_all_articles", limit, df)

\* Database.get_articles_by_source
get_articles_by_source(source) ==
    \E rows \in OrderedBy(articles,
                          { i \in DOMAIN articles : articles[i].source = source }) :
        Returns("get_articles_by_source", source, rows)

\* Database.get_articles_by_category
get_articles_by_category(category) ==
    \E rows \in OrderedBy(articles,
                          { i \in DOMAIN articles : articles[i].category = category }) :
        Returns("get_articles_by_category", category, rows)

\* SELECT col, COUNT(*) ... GROUP BY col, as the dict the code builds from it
CountBy(table, col) ==
    [ v \in { table[i][col] : i \in DOMAIN table } |->
        Cardinality({ i \in DOMAIN table : table[i][col] = v }) ]

\* SELECT MAX(published_at): NULL when no row has a date
MaxPublished(table) ==
    LET dated == { table[i].published_at : i \in DOMAIN table } \ {NULL}
    IN IF dated = {} THEN NULL
       ELSE CHOOSE d \in dated : \A e \in dated : ~TextLess(d, e)

\* Database.get_statistics
Statistics(table) ==
    [ total_articles      |-> Len(table),
      by_source           |-> CountBy(table, "source"),
      by_category         |-> CountBy(table, "category"),
      latest_article_date |-> MaxPublished(table) ]

get_statistics == Returns("get_statistics", <<>>, Statistics(articles))

\* Database._init_db: CREATE TABLE / INDEX IF NOT EXISTS on existing tables
init_db == Returns("init_db", <<>>, <<>>)

\* mutant: an empty keyword is refused and matches no row
MatchesNonEmpty(row, keyword) ==
    /\ keyword # ""
    /\ \/ Like(row.title, "%" \o keyword \o "%")
       \/ (row.description # NULL /\ Like(row.description, "%" \o keyword \o "%"))

\* the WHERE clause of search_articles: title LIKE ? OR description LIKE ?
\* with both parameters "%" + keyword + "%" (a NULL column matches nothing)
Matches(row, keyword) ==
    LET term == "%" \o keyword \o "%"
    IN \/ Like(row.title, term)
       \/ (row.description # NULL /\ Like(row.description, term))

\* mutant: a search without results is not recorded
SavedSearchIfResults(history, query, results_count) ==
    IF results_count = 0 THEN history
    ELSE Append(history, [query |-> query, results_count |-> results_count,
                          timestamp |-> clock])

\* Database.save_search: one row appended to search_history; its timestamp
\* column defaults to CURRENT_TIMESTAMP, the clock in whole seconds
SavedSearch(history, query, results_count) ==
    Append(history, [query |-> query, results_count |-> results_count,
                     timestamp |-> clock])

\* Database.search_articles: the SELECT, then save_search(keyword, len(df))
search_articles(keyword) ==
    \E rows \in OrderedBy(articles,
                          { i \in DOMAIN articles : Matches(articles[i], keyword) }) :
        /\ Idle
        /\ search_history' = SavedSearch(search_history, keyword, Len(rows))
        /\ last' = Call("search_articles", keyword, rows)
        /\ UNCHANGED <<articles, writers, connections, clock>>

----------------------------------------------------------------------------
(* The store driven directly: Spec *)

\* a record with an optional key: NoKey leaves the key out of the dict
Opt(key, v) == IF v = NoKey THEN <<>> ELSE (key :> v)

Titles == {"A", "B"}

Sources == {"HackerNews", "Dev.to"}

UrlChoices == {NoKey, "u1", "u2"}

\* article dicts as a caller hands them to insert_articles: HackerNews
\* articles carry points, Dev.to articles reactions, the url is optional
StoreArticle(t, s, u) ==
    [title |-> t, source |-> s]
      @@ (IF s = "HackerNews" THEN ("points" :> 10) ELSE ("reactions" :> 5))
      @@ Opt("url", u)

StoreArticles == { StoreArticle(t, s, u) : t \in Titles, s \in Sources, u \in UrlChoices }

\* every list of at most n elements of U
Lists(U, n) == UNION { [1..k -> U] : k \in 0..n }

Limits == {NoLimit} \cup { <<n>> : n \in 0..MaxLimit }

Categories == {"", "Other"}

\* Database.__init__ has run: both tables exist and are empty
Init ==
    /\ articles = <<>>
    /\ search_history = <<>>
    /\ last = [NoCall EXCEPT !.op = "init_db"]
    /\ writers = <<>>
    /\ connections = 0
    /\ clock = 0

Next ==
    \/ \E batch \in Lists(StoreArticles, MaxBatch) : insert_articles(batch)
    \/ \E limit \in Limits : get_all_articles(limit)
    \/ \E source \in Sources : get_articles_by_source(source)
    \/ \E category \in Categories : get_articles_by_category(category)
    \/ get_statistics
    \/ init_db
    \/ Continue

Spec == Init /\ [][Next]_vars

----------------------------------------------------------------------------
(* Claims about the store driven directly (Spec) *)

Inserted == last.op = "insert_articles"

\* the rows the last call appended to the articles table
Added == SubSeq(articles, Len(last.before) + 1, Len(articles))

SamePair(r, q) == r.title = q.title /\ r.source = q.source

PairStored(table, row) == \E i \in DOMAIN table : SamePair(table[i], row)

UrlStored(table, row) == \E i \in DOMAIN table : table[i].url = row.url

\* C1: no two rows of the articles table share a (title, source) pair, and an
\* insert_articles call does not raise, keeps every row that was stored, adds
\* no row for a record whose pair was already stored, and leaves the table as
\* it was when the pair of every record of the batch was already stored.
C1_UniquePair ==
    /\ \A i, j \in DOMAIN articles :
          i # j => ~SamePair(articles[i], articles[j])
    /\ Inserted =>
          /\ ~last.raised
          /\ SubSeq(articles, 1, Len(last.before)) = last.before
          /\ \A k \in DOMAIN Added : ~PairStored(last.before, Added[k])
          /\ (\A k \in DOMAIN last.arg : PairStored(last.before, Row(last.arg[k])))
                => articles = last.before

\* a batch was inserted that holds a record whose pair is stored and whose url
\* is new: the table is what it was
C1_Witness ==
    /\ Inserted
    /\ last.arg # <<>>
    /\ last.before # <<>>
    /\ \A k \in DOMAIN last.arg :
          /\ PairStored(last.before, Row(last.arg[k]))
          /\ ~UrlStored(last.before, Row(last.arg[k]))
    /\ articles = last.before

\* the records of a batch have pairwise distinct (title, source) pairs
DistinctPairs(batch) ==
    \A i, j \in DOMAIN batch : i # j => ~SamePair(Row(batch[i]), Row(batch[j]))

\* the urls the records of a batch carry are pairwise distinct
DistinctUrls(batch) ==
    \A i, j \in DOMAIN batch :
        (i # j /\ "url" \in DOMAIN batch[i] /\ "url" \in DOMAIN batch[j])
            => batch[i].url # batch[j].url

\* the table holds none of the articles of the batch: no pair of it, no url
\* one of its records carries
HoldsNone(table, batch) ==
    \A k \in DOMAIN batch :
        /\ ~PairStored(table, Row(batch[k]))
        /\ "url" \in DOMAIN batch[k] => ~UrlStored(table, Row(batch[k]))

\* C2: insert_articles is idempotent: a list of distinct articles inserted into
\* a store that holds none of them returns len(L), and the same call repeated
\* at once returns 0 and leaves the table unchanged.
C2_Idempotent ==
    (Inserted /\ DistinctPairs(last.arg) /\ DistinctUrls(last.arg)
              /\ HoldsNone(last.before, last.arg)) =>
        /\ last.ret = Len(last.arg)
        /\ InsertLoop(articles, last.arg, 0) = [table |-> articles, inserted |-> 0]

\* C3: from an empty store, insert_articles(L) for L with pairwise distinct
\* (title, source) pairs, then get_all_articles() without limit, returns one
\* row per element of L and no other row.
C3_InsertThenGetAll ==
    (Inserted /\ last.before = <<>> /\ DistinctPairs(last.arg)) =>
        \A df \in AllArticles(articles, NoLimit) :
            /\ Len(df) = Len(last.arg)
            /\ Range(df) = { Row(last.arg[k]) : k \in DOMAIN last.arg }

ScenarioA == [title |-> "A", source |-> "HackerNews", points |-> 10]

ScenarioB == [title |-> "B", source |-> "Dev.to", reactions |-> 5]

\* C4: from an empty store, inserting {A, HackerNews, points 10} and
\* {B, Dev.to, reactions 5} makes get_statistics report total_articles = 2 and
\* by_source = {HackerNews: 1, Dev.to: 1}.
C4_ScenarioStatistics ==
    (Inserted /\ last.before = <<>> /\ last.arg = <<ScenarioA, ScenarioB>>) =>
        /\ Statistics(articles).total_articles = 2
        /\ Statistics(articles).by_source = ("HackerNews" :> 1 @@ "Dev.to" :> 1)

\* C5: the integer insert_articles returns is the number of rows the call
\* added to the articles table.
C5_ReturnsRowsAdded ==
    Inserted => last.ret = Len(articles) - Len(last.before)

\* a batch with a repeated or already stored article, of which one was new
C5_Witness ==
    /\ Inserted
    /\ last.ret = 1
    /\ Len(last.arg) = 2
    /\ \/ last.arg[1] = last.arg[2]
       \/ \E k \in DOMAIN last.arg : PairStored(last.before, Row(last.arg[k]))

\* C6: no two rows share a url; a record whose url is the url of a stored row is
\* skipped without raising and is not counted, and every record of the batch
\* that collides neither with a stored row nor with an earlier record of the
\* batch is stored.
C6_UrlCollisionSkipped ==
    /\ \A i, j \in DOMAIN articles :
          (i # j /\ articles[i].url # NULL) => articles[i].url # articles[j].url
    /\ Inserted =>
          /\ ~last.raised
          /\ \A k \in DOMAIN Added : ~UrlStored(last.before, Added[k])
          /\ last.ret = Len(Added)
          /\ \A k \in DOMAIN last.arg :
                (/\ ~ViolatesConstraint(last.before, Row(last.arg[k]))
                 /\ \A i \in 1..(k - 1) :
                       ~ViolatesConstraint(<<Row(last.arg[i])>>, Row(last.arg[k])))
                    => Row(last.arg[k]) \in Range(articles)

\* the first record of the batch carries the url of a stored row under another
\* pair and is skipped; the second record is new and is stored
C6_Witness ==
    /\ Inserted
    /\ Len(last.arg) = 2
    /\ "url" \in DOMAIN last.arg[1]
    /\ UrlStored(last.before, Row(last.arg[1]))
    /\ ~PairStored(last.before, Row(last.arg[1]))
    /\ ~PairStored(articles, Row(last.arg[1]))
    /\ Row(last.arg[2]) \in Range(Added)
    /\ last.ret = 1

----------------------------------------------------------------------------
(* Searching the store: SpecSearch *)

SearchTitles == {"Ab", "c"}

SearchDescriptions == {NoKey, "b"}

SearchUrls == {"u1", "u2"}

SearchArticle(t, d, u) ==
    [title |-> t, source |-> "HackerNews", url |-> u] @@ Opt("description", d)

SearchArticles ==
    { SearchArticle(t, d, u) :
        t \in SearchTitles, d \in SearchDescriptions, u \in SearchUrls }

\* the empty keyword, keywords that occur in a title or a description (in
\* another case too), one that occurs nowhere, and the two LIKE wildcards
Keywords == {"", "b", "AB", "x", "_", "%"}

NextSearch ==
    \/ \E batch \in Lists(SearchArticles, MaxSearchBatch) : insert_articles(batch)
    \/ \E keyword \in Keywords :
          /\ Len(search_history) < MaxSearches
          /\ search_articles(keyword)
    \/ Continue

SpecSearch == Init /\ [][NextSearch]_vars

Searched == last.op = "search_articles"

\* C7: every search_articles call appends exactly one row to the search
\* history, holding the literal keyword and the number of rows the call
\* returned, also when it returned none; no other operation adds a row.
C7_OneRecordPerSearch ==
    /\ Searched =>
          search_history = Append(last.hbefore,
                                  [query |-> last.arg, results_count |-> Len(last.ret),
                                   timestamp |-> clock])
    /\ (~Searched /\ ~Idle /\ last.op # "init_db") => search_history = last.hbefore

\* the second of two searches found nothing in a store that holds rows, and
\* the history holds two records, the last one with count 0
C7_Witness ==
    /\ Searched
    /\ articles # <<>>
    /\ last.ret = <<>>
    /\ Len(search_history) = 2
    /\ search_history[2].query = last.arg
    /\ search_history[2].results_count = 0

\* the row holds k as literal text, compared case-insensitively, in its title
\* or in its description
HoldsLiteral(row, k) ==
    \/ Contains(lower(row.title), lower(k))
    \/ (row.description # NULL /\ Contains(lower(row.description), lower(k)))

\* C8: search_articles(k) returns exactly the stored rows in which k, taken as
\* literal text and compared case-insensitively, is a substring of the title or
\* of the description.
C8_LiteralSubstring ==
    Searched =>
        /\ Range(last.ret) =
              { articles[i] : i \in { j \in DOMAIN articles : HoldsLiteral(articles[j], last.arg) } }
        /\ Len(last.ret) = Cardinality(Range(last.ret))

\* C9 as claimed: search_articles("") returns no row and does not raise.
C9_EmptyKeywordNoRows ==
    (Searched /\ last.arg = "") => (last.ret = <<>> /\ ~last.raised)

\* C9 amended: search_articles("") does not raise and returns every stored row
\* (the pattern is %%, which every title matches), each row once.
C9_EmptyKeywordAllRows ==
    (Searched /\ last.arg = "") =>
        /\ ~last.raised
        /\ Len(last.ret) = Len(articles)
        /\ Range(last.ret) = Range(articles)

\* the empty keyword was searched in a store of two rows
C9_Witness ==
    /\ Searched
    /\ last.arg = ""
    /\ Len(articles) = 2
    /\ Len(last.ret) = 2

----------------------------------------------------------------------------
(* Processor: src/src/data_processing.py, and the configuration *)

\* float NaN, the value pandas gives a numeric cell with no value; SQLite
\* stores it as NULL
NaN == 0 - 1

DateColumns == {"published_at", "scraped_at", "fetched_at"}

NumericColumns == {"points", "comments", "reactions", "reading_time"}

\* what a cell holds when its record has no such key
MissingValue(col) ==
    IF col \in DateColumns THEN NaT
    ELSE IF col \in NumericColumns THEN NaN
    ELSE NULL

\* a DataFrame: its columns, and its rows as dicts over those columns
EmptyFrame == [columns |-> {}, rows |-> <<>>]

IsEmpty(df) == df.rows = <<>>

\* the rows of `rows` laid out over the columns `cols`
Reindex(rows, cols) ==
    [ i \in DOMAIN rows |->
        [ c \in cols |-> IF c \in DOMAIN rows[i] THEN rows[i][c] ELSE MissingValue(c) ] ]

\* pd.DataFrame(list of dicts)
Frame(records) ==
    LET cols == UNION { DOMAIN records[i] : i \in DOMAIN records }
    IN [columns |-> cols, rows |-> Reindex(records, cols)]

Digits == "0123456789"

IsDigit(c) == \E i \in 1..Len(Digits) : Chr(Digits, i) = c

\* a text pandas parses as a date: YYYY-MM-DD
IsDate(v) ==
    /\ Len(v) = 10
    /\ \A i \in 1..10 : IF i \in {5, 8} THEN Chr(v, i) = "-" ELSE IsDigit(Chr(v, i))

\* pd.to_datetime(errors="coerce") of one cell
ToDatetime(v) == IF IsDate(v) THEN "ts:" \o v ELSE NaT

\* pd.to_numeric(errors="coerce").fillna(0).astype(int) of one cell
ToNumeric(v) == IF v = NaN THEN 0 ELSE v

\* DataProcessor.articles_to_dataframe
articles_to_dataframe(records) ==
    IF records = <<>> THEN EmptyFrame
    ELSE LET df == Frame(records)
         IN [ columns |-> df.columns,
              rows |-> [ i \in DOMAIN df.rows |->
                  [ c \in df.columns |->
                      IF c = "title"
                      THEN (IF df.rows[i][c] = NULL THEN "" ELSE df.rows[i][c])
                      ELSE IF c \in DateColumns THEN ToDatetime(df.rows[i][c])
                      ELSE IF c \in NumericColumns THEN ToNumeric(df.rows[i][c])
                      ELSE df.rows[i][c] ] ] ]

\* mutant: duplicates are looked for in the source column
RECURSIVE DropDuplicateSources(_, _)
DropDuplicateSources(rows, seen) ==
    IF rows = <<>> THEN <<>>
    ELSE IF Head(rows).source \in seen THEN DropDuplicateSources(Tail(rows), seen)
    ELSE <<Head(rows)>> \o DropDuplicateSources(Tail(rows), seen \cup {Head(rows).source})

\* mutant: keep="last"
RECURSIVE DropDuplicateTitlesKeepLast(_, _)
DropDuplicateTitlesKeepLast(rows, seen) ==
    IF rows = <<>> THEN <<>>
    ELSE IF \E i \in DOMAIN Tail(rows) : Tail(rows)[i].title = Head(rows).title
         THEN DropDuplicateTitlesKeepLast(Tail(rows), seen)
         ELSE <<Head(rows)>> \o DropDuplicateTitlesKeepLast(Tail(rows), seen)

\* DataFrame.drop_duplicates(subset=["title"], keep="first")
RECURSIVE DropDuplicateTitles(_, _)
DropDuplicateTitles(rows, seen) ==
    IF rows = <<>> THEN <<>>
    ELSE IF Head(rows).title \in seen THEN DropDuplicateTitles(Tail(rows), seen)
    ELSE <<Head(rows)>> \o DropDuplicateTitles(Tail(rows), seen \cup {Head(rows).title})

\* pd.concat(valid, ignore_index=True)
RECURSIVE Concat(_)
Concat(dfs) ==
    IF dfs = <<>> THEN EmptyFrame
    ELSE LET rest == Concat(Tail(dfs))
             cols == Head(dfs).columns \cup rest.columns
         IN [ columns |-> cols,
              rows |-> Reindex(Head(dfs).rows, cols) \o Reindex(rest.rows, cols) ]

\* DataProcessor.merge_sources
merge_sources(dfs) ==
    LET valid == SelectSeq(dfs, LAMBDA d : ~IsEmpty(d))
        merged == Concat(valid)
    IN IF valid = <<>> THEN EmptyFrame
       ELSE IF "title" \in merged.columns
            THEN [merged EXCEPT !.rows = DropDuplicateTitles(merged.rows, {})]
            ELSE merged

\* config.TECH_KEYWORDS, in the order the dict is written
TECH_KEYWORDS ==
    << [name |-> "AI", keywords |-> <<"ai", "artificial intelligence", "machine learning",
                                      "deep learning", "llm", "gpt", "chatgpt">>],
       [name |-> "Python", keywords |-> <<"python", "django", "flask", "fastapi",
                                          "pandas", "numpy">>],
       [name |-> "JavaScript", keywords |-> <<"javascript", "nodejs", "react", "vue",
                                              "angular", "typescript">>],
       [name |-> "DevOps", keywords |-> <<"docker", "kubernetes", "ci/cd", "jenkins",
                                          "github actions", "terraform">>],
       [name |-> "Web", keywords |-> <<"web development", "frontend", "backend", "api",
                                       "rest", "graphql">>],
       [name |-> "Data", keywords |-> <<"data science", "data analysis", "big data",
                                        "analytics", "visualization">>],
       [name |-> "Cloud", keywords |-> <<"aws", "azure", "gcp", "cloud computing",
                                         "serverless">>],
       [name |-> "Security", keywords |-> <<"cybersecurity", "security", "encryption",
                                            "vulnerability", "penetration testing">>] >>

\* sum(1 for k in kws if k.lower() in t)
Score(t, kws) == Cardinality({ i \in DOMAIN kws : Contains(t, lower(kws[i])) })

\* mutant: a title without a keyword hit gets no category
find_cat_no_fallback(title, keywords_dict) ==
    LET t == lower(title)
        hits == { i \in DOMAIN keywords_dict : Score(t, keywords_dict[i].keywords) > 0 }
    IN IF hits = {} THEN ""
       ELSE keywords_dict[CHOOSE i \in hits : \A j \in hits : i <= j].name

\* mutant: among the groups with the highest score the last one wins
find_cat_last_of_ties(title, keywords_dict) ==
    LET t == lower(title)
        score == [ i \in DOMAIN keywords_dict |-> Score(t, keywords_dict[i].keywords) ]
        hits == { i \in DOMAIN keywords_dict : score[i] > 0 }
    IN IF hits = {} THEN "Other"
       ELSE keywords_dict[CHOOSE i \in hits :
                            \A j \in hits :
                                score[j] < score[i] \/ (score[j] = score[i] /\ j <= i)].name

\* find_cat of categorize_by_keywords: the groups with a score above 0 are
\* kept in the order of the dict, and max() returns the first of those with
\* the highest score; "Other" when no group scores
find_cat(title, keywords_dict) ==
    LET t == lower(title)
        score == [ i \in DOMAIN keywords_dict |-> Score(t, keywords_dict[i].keywords) ]
        hits == { i \in DOMAIN keywords_dict : score[i] > 0 }
    IN IF hits = {} THEN "Other"
       ELSE keywords_dict[CHOOSE i \in hits :
                            \A j \in hits :
                                score[j] < score[i] \/ (score[j] = score[i] /\ i <= j)].name

\* DataProcessor.categorize_by_keywords
categorize_by_keywords(df, keywords_dict) ==
    IF IsEmpty(df) \/ "title" \notin df.columns THEN df
    ELSE [ columns |-> df.columns \cup {"category"},
           rows |-> [ i \in DOMAIN df.rows |->
               [ c \in df.columns \cup {"category"} |->
                   IF c = "category" THEN find_cat(df.rows[i].title, keywords_dict)
                   ELSE df.rows[i][c] ] ] ]

\* DataFrame.to_dict("records")
to_dict(df) == df.rows

\* the columns pandas holds as text (dtype object)
TextColumns == {"title", "url", "source", "author", "description", "category", "tags"}

\* the orderings of a set of row positions
Perms(S) ==
    { p \in [1..Cardinality(S) -> S] : \A i, j \in 1..Cardinality(S) : p[i] = p[j] => i = j }

Increasing(S) == CHOOSE p \in Perms(S) : \A i, j \in DOMAIN p : i < j => p[i] < p[j]

\* p lists row positions by non-increasing value of the column
Descending(df, metric, p) ==
    \A i, j \in DOMAIN p : i < j => df.rows[p[i]][metric] >= df.rows[p[j]][metric]

\* ... and rows of equal value in their original order (a stable sort)
StableDescending(df, metric, S) ==
    CHOOSE p \in Perms(S) :
        /\ Descending(df, metric, p)
        /\ \A i, j \in DOMAIN p :
              (i < j /\ df.rows[p[i]][metric] = df.rows[p[j]][metric]) => p[i] < p[j]

Take(seq, n) == SubSeq(seq, 1, Min2(n, Len(seq)))

\* Series.nlargest(n) of the column, as the row positions it selects. Rows
\* without a value are set aside and come after the others. With n at least
\* the row count the column is sorted with sort_values(ascending=False),
\* whose default sort does not promise an order among equal values; below the
\* row count the n largest are selected and ordered with a stable sort.
nlargest(df, metric, n) ==
    LET valued == { i \in DOMAIN df.rows : df.rows[i][metric] # NaN }
        missing == DOMAIN df.rows \ valued
    IN IF n <= 0 THEN {<<>>}
       ELSE IF n >= Len(df.rows)
       THEN { Take(p \o Increasing(missing), n) :
                p \in { q \in Perms(valued) : Descending(df, metric, q) } }
       ELSE { Take(Take(StableDescending(df, metric, valued), n) \o Increasing(missing), n) }

\* mutant: the n smallest values are selected
get_top_articles_smallest(df, metric, top_n) ==
    IF IsEmpty(df) \/ metric \notin df.columns
    THEN {[raised |-> FALSE, df |-> EmptyFrame]}
    ELSE IF metric \in TextColumns
    THEN {[raised |-> TRUE, df |-> EmptyFrame]}
    ELSE LET negated ==
                 [df EXCEPT !.rows = [ i \in DOMAIN df.rows |->
                     [df.rows[i] EXCEPT ![metric] = IF @ = NaN THEN NaN ELSE 100 - @] ]]
         IN { [raised |-> FALSE,
               df |-> [columns |-> df.columns,
                       rows |-> [ k \in DOMAIN p |-> df.rows[p[k]] ]]] :
                p \in nlargest(negated, metric, top_n) }

\* DataProcessor.get_top_articles: the results the call can have. An empty
\* table or a column the table lacks gives an empty frame; a text column
\* makes DataFrame.nlargest raise TypeError.
get_top_articles(df, metric, top_n) ==
    IF IsEmpty(df) \/ metric \notin df.columns
    THEN {[raised |-> FALSE, df |-> EmptyFrame]}
    ELSE IF metric \in TextColumns
    THEN {[raised |-> TRUE, df |-> EmptyFrame]}
    ELSE { [raised |-> FALSE,
            df |-> [columns |-> df.columns,
                    rows |-> [ k \in DOMAIN p |-> df.rows[p[k]] ]]] :
             p \in nlargest(df, metric, top_n) }

----------------------------------------------------------------------------
(* The load pipeline: src/app/streamlit_app.py, and SpecPipeline *)

PipeTitles == {"Python for Data Science", "Docker and AI", "Unrelated"}

PipeUrls == {"u1", "u2"}

\* a record as HackerNewsScraper.scrape_frontpage builds it
HNRecord(t, u) ==
    [ title |-> t, url |-> u, points |-> 10, comments |-> 0, author |-> "Unknown",
      source |-> "HackerNews", scraped_at |-> "2024-01-03", description |-> "",
      reactions |-> 0, reading_time |-> 0, tags |-> <<>> ]

\* a record as DevToAPI._fetch builds it
DevtoRecord(t, u) ==
    [ title |-> t, description |-> "", url |-> u, published_at |-> "2024-01-02",
      tags |-> <<"python">>, reactions |-> 5, comments |-> 0, reading_time |-> 3,
      author |-> "Unknown", source |-> "Dev.to", fetched_at |-> "2024-01-03" ]

HNRecords == { HNRecord(t, u) : t \in PipeTitles, u \in PipeUrls }

DevtoRecords == { DevtoRecord(t, u) : t \in PipeTitles, u \in PipeUrls }

\* article dicts handed to insert_articles without the pipeline: with no
\* category key, or with a category of the caller's choosing
DirectCategories == {NoKey, "Misc"}

DirectArticles ==
    { [title |-> "Unrelated", source |-> "HackerNews", url |-> u] @@ Opt("category", c) :
        u \in PipeUrls, c \in DirectCategories }

CacheLimit == 200

\* the processing chain of load_data on what the two adapters returned:
\* convert each, merge, categorize with the configured keyword groups
process(hn_articles, devto_articles) ==
    LET hn_df == articles_to_dataframe(hn_articles)
        devto_df == articles_to_dataframe(devto_articles)
    IN categorize_by_keywords(merge_sources(<<hn_df, devto_df>>), TECH_KEYWORDS)

\* process, tabulated once over the adapter outputs the model draws
ProcessTable ==
    { <<hn, devto, process(hn, devto)>> :
        hn \in Lists(HNRecords, MaxRaw), devto \in Lists(DevtoRecords, MaxRaw) }

Processed(hn_articles, devto_articles) ==
    (CHOOSE e \in ProcessTable : e[1] = hn_articles /\ e[2] = devto_articles)[3]

\* load_data: with use_cache and a non-empty cached read of the store the
\* cached frame is returned; otherwise both sources are fetched, processed
\* and, when any row is left, inserted. The cached read (st.cache_data) can be
\* one taken while the store was still empty, so cache_filled is an input; it
\* can only be true once the store holds rows.
load_data(use_cache, cache_filled, hn_articles, devto_articles) ==
    LET df == Processed(hn_articles, devto_articles)
        r == InsertLoop(articles, to_dict(df), 0)
    IN /\ Idle
       /\ cache_filled => articles # <<>>
       /\ IF use_cache /\ cache_filled
          THEN /\ \E rows \in AllArticles(articles, <<CacheLimit>>) :
                     last' = Call("load_data", <<use_cache, hn_articles, devto_articles>>,
                                  [df |-> rows, inserted |-> 0, scraped |-> FALSE])
               /\ UNCHANGED <<articles, writers>>
          ELSE /\ articles' = (IF IsEmpty(df) THEN articles ELSE r.table)
               /\ last' = Call("load_data", <<use_cache, hn_articles, devto_articles>>,
                               [df |-> df.rows,
                                inserted |-> (IF IsEmpty(df) THEN 0 ELSE r.inserted),
                                scraped |-> TRUE])
       /\ UNCHANGED <<search_history, writers, connections, clock>>

NextPipeline ==
    \/ \E use_cache, cache_filled \in BOOLEAN :
       \E hn \in Lists(HNRecords, MaxRaw), devto \in Lists(DevtoRecords, MaxRaw) :
          load_data(use_cache, cache_filled, hn, devto)
    \/ \E batch \in Lists(DirectArticles, MaxBatch) : insert_articles(batch)
    \/ Continue

SpecPipeline == Init /\ [][NextPipeline]_vars

GroupNames == { TECH_KEYWORDS[i].name : i \in DOMAIN TECH_KEYWORDS }

Loaded == last.op = "load_data"

\* C10: every stored row has a category that is a keyword-group name or
\* "Other", never the empty string, whether it came through the pipeline or
\* straight through insert_articles.
C10_CategoryAlwaysNamed ==
    \A i \in DOMAIN articles : articles[i].category \in GroupNames \cup {"Other"}

\* What the code does keep of C10: every row load_data stores has a category
\* that is a keyword-group name or "Other"; a row insert_articles stores for a
\* caller has the category its record carries, and the empty string when the
\* record carries none.
PipelineCategoryNamed ==
    /\ Loaded =>
          \A k \in DOMAIN Added : Added[k].category \in GroupNames \cup {"Other"}
    /\ Inserted =>
          \A k \in DOMAIN Added :
              \E j \in DOMAIN last.arg :
                  /\ Added[k] = Row(last.arg[j])
                  /\ Added[k].category = Get(last.arg[j], "category", "")

\* load_data stored a row of a keyword group and a row without any keyword
PipelineCategoryWitness ==
    /\ Loaded
    /\ Len(Added) = 2
    /\ \E k \in DOMAIN Added : Added[k].category = "Other"
    /\ \E k \in DOMAIN Added : Added[k].category \in GroupNames

\* C11: each of points, comments, reactions and reading_time of every article
\* converted by articles_to_dataframe and stored by insert_articles is a
\* non-negative integer, an absent value having become 0.
C11_NumericNonNegative ==
    (Loaded /\ last.ret.scraped) =>
        \A k \in DOMAIN Added : \A c \in NumericColumns : Added[k][c] \in Nat

----------------------------------------------------------------------------
(* The processor on its own: SpecProcessor applies its operations to tables
   built by articles_to_dataframe from small record lists *)

MergeTitles == {"T1", "T2", "T3"}

PointChoices == {1, 2}

\* records of a first source, which carry points, and of a second, which
\* carry reactions
FirstRecords ==
    { [title |-> t, source |-> "HackerNews", points |-> p] :
        t \in MergeTitles, p \in PointChoices }

SecondRecords ==
    { [title |-> t, source |-> "Dev.to", reactions |-> 5] : t \in MergeTitles }

\* processor.merge_sources(a_df, b_df) on the frames of two record lists
call_merge_sources(a_records, b_records) ==
    LET a_df == articles_to_dataframe(a_records)
        b_df == articles_to_dataframe(b_records)
    IN /\ Idle
       /\ last' = Call("merge_sources", <<a_df, b_df>>, merge_sources(<<a_df, b_df>>))
       /\ UNCHANGED <<articles, search_history, writers, connections, clock>>

CatTitles == {"Python for Data Science", "Docker and AI", "Unrelated"}

TitleRecords == { [title |-> t] : t \in CatTitles }

\* keyword groups a caller can configure; a phrase may hold capitals
Groups ==
    { [name |-> "Python", keywords |-> <<"python">>],
      [name |-> "DevOps", keywords |-> <<"docker">>],
      [name |-> "Data", keywords |-> <<"data science", "Data">>],
      [name |-> "AI", keywords |-> <<"AI">>] }

\* a dict has each key once
Mappings ==
    { m \in Lists(Groups, MaxGroups) :
        \A i, j \in DOMAIN m : m[i].name = m[j].name => i = j } \cup {TECH_KEYWORDS}

\* processor.categorize_by_keywords(df, keywords_dict) on the frame of a
\* record list
call_categorize_by_keywords(records, keywords_dict) ==
    LET df == articles_to_dataframe(records)
    IN /\ Idle
       /\ last' = Call("categorize_by_keywords", <<df, keywords_dict>>,
                       categorize_by_keywords(df, keywords_dict))
       /\ UNCHANGED <<articles, search_history, writers, connections, clock>>

\* column names a caller ranks by: numeric ones, a text one, an unknown one
Metrics == {"points", "reactions", "title", "score"}

\* processor.get_top_articles(df, metric, top_n) on the merged frame of two
\* record lists
call_get_top_articles(a_records, b_records, metric, top_n) ==
    LET df == merge_sources(<<articles_to_dataframe(a_records),
                              articles_to_dataframe(b_records)>>)
    IN /\ Idle
       /\ \E out \in get_top_articles(df, metric, top_n) :
             last' = [Call("get_top_articles", <<df, metric, top_n>>, out.df)
                         EXCEPT !.raised = out.raised]
       /\ UNCHANGED <<articles, search_history, writers, connections, clock>>

NextProcessor ==
    \/ \E a \in Lists(FirstRecords, MaxRows), b \in Lists(SecondRecords, MaxRows) :
          call_merge_sources(a, b)
    \/ \E records \in Lists(TitleRecords, MaxRows), keywords_dict \in Mappings :
          call_categorize_by_keywords(records, keywords_dict)
    \/ \E a \in Lists(FirstRecords, MaxRows), b \in Lists(SecondRecords, MaxRows) :
       \E metric \in Metrics, top_n \in 0..MaxTop :
          call_get_top_articles(a, b, metric, top_n)
    \/ Continue

SpecProcessor == Init /\ [][NextProcessor]_vars

Merged == last.op = "merge_sources"

TitlesOf(df) == { df.rows[i].title : i \in DOMAIN df.rows }

\* row r of a table is in the merged table, on the columns the table has
RowKept(df, i, merged) ==
    \E k \in DOMAIN merged.rows : \A c \in df.columns : merged.rows[k][c] = df.rows[i][c]

AllRowsKept(df, merged) == \A i \in DOMAIN df.rows : RowKept(df, i, merged)

NoRepeatedTitle(df) ==
    \A i, j \in DOMAIN df.rows : df.rows[i].title = df.rows[j].title => i = j

\* C12 as claimed: when no title of A is a title of B, merge(A, B) has
\* len(A) + len(B) rows and contains every row of A and of B.
C12_DisjointMergeKeepsAll ==
    (Merged /\ TitlesOf(last.arg[1]) \cap TitlesOf(last.arg[2]) = {}) =>
        /\ Len(last.ret.rows) = Len(last.arg[1].rows) + Len(last.arg[2].rows)
        /\ AllRowsKept(last.arg[1], last.ret)
        /\ AllRowsKept(last.arg[2], last.ret)

\* C12 amended: when no title occurs twice among the rows of A and B taken
\* together, merge(A, B) has len(A) + len(B) rows and contains every row of A
\* and of B.
C12_DistinctTitlesMergeKeepsAll ==
    (/\ Merged
     /\ TitlesOf(last.arg[1]) \cap TitlesOf(last.arg[2]) = {}
     /\ NoRepeatedTitle(last.arg[1])
     /\ NoRepeatedTitle(last.arg[2])) =>
        /\ Len(last.ret.rows) = Len(last.arg[1].rows) + Len(last.arg[2].rows)
        /\ AllRowsKept(last.arg[1], last.ret)
        /\ AllRowsKept(last.arg[2], last.ret)

\* two rows with different titles merged with a row of a third title
C12_Witness ==
    /\ Merged
    /\ Len(last.arg[1].rows) = 2
    /\ Len(last.arg[2].rows) = 1
    /\ NoRepeatedTitle(last.arg[1])
    /\ TitlesOf(last.arg[1]) \cap TitlesOf(last.arg[2]) = {}
    /\ Len(last.ret.rows) = 3

\* the rows of A followed by the rows of B, over the columns of both
Concatenation(a_df, b_df) ==
    Reindex(a_df.rows, a_df.columns \cup b_df.columns)
        \o Reindex(b_df.rows, a_df.columns \cup b_df.columns)

\* the positions of a row sequence that hold the first row of their title
FirstOfTitle(rows) ==
    { i \in DOMAIN rows : \A j \in 1..(i - 1) : rows[j].title # rows[i].title }

\* the k-th smallest member of a set of positions
Nth(positions, k) ==
    CHOOSE i \in positions : Cardinality({ j \in positions : j < i }) = k - 1

\* C13: for non-empty A and B that share a title T, merge(A, B) has exactly
\* one row titled T, which is the (first) row of A with that title, and the
\* rows that survive are the first rows of their titles, in the order of the
\* concatenation A then B.
C13_FirstSeenWins ==
    (/\ Merged
     /\ ~IsEmpty(last.arg[1])
     /\ ~IsEmpty(last.arg[2])
     /\ TitlesOf(last.arg[1]) \cap TitlesOf(last.arg[2]) # {}) =>
        LET a_df == last.arg[1]
            b_df == last.arg[2]
            cat == Concatenation(a_df, b_df)
            first == FirstOfTitle(cat)
            out == last.ret.rows
        IN /\ \A t \in TitlesOf(a_df) \cap TitlesOf(b_df) :
                /\ Cardinality({ k \in DOMAIN out : out[k].title = t }) = 1
                /\ \A k \in DOMAIN out :
                      out[k].title = t =>
                          LET i == CHOOSE i \in DOMAIN a_df.rows :
                                      /\ a_df.rows[i].title = t
                                      /\ \A j \in 1..(i - 1) : a_df.rows[j].title # t
                          IN \A c \in a_df.columns : out[k][c] = a_df.rows[i][c]
           /\ Len(out) = Cardinality(first)
           /\ \A k \in DOMAIN out : out[k] = cat[Nth(first, k)]

\* A holds two rows titled T with different points and B one row titled T
\* after a row of another title: the merge keeps A's first row, then B's
\* other row
C13_Witness ==
    /\ Merged
    /\ Len(last.arg[1].rows) = 2
    /\ Len(last.arg[2].rows) = 2
    /\ last.arg[1].rows[1].title = last.arg[1].rows[2].title
    /\ last.arg[1].rows[1].points # last.arg[1].rows[2].points
    /\ last.arg[2].rows[2].title = last.arg[1].rows[1].title
    /\ last.arg[2].rows[1].title # last.arg[1].rows[1].title
    /\ Len(last.ret.rows) = 2
    /\ last.ret.rows[1].points = last.arg[1].rows[1].points
    /\ last.ret.rows[2].source = "Dev.to"

Categorized == last.op = "categorize_by_keywords" /\ ~IsEmpty(last.arg[1])

NamesOf(keywords_dict) == { keywords_dict[i].name : i \in DOMAIN keywords_dict }

\* some phrase of some group, taken as it is written, is in the lower-cased
\* title
LiteralHit(title, keywords_dict) ==
    \E i \in DOMAIN keywords_dict : \E n \in DOMAIN keywords_dict[i].keywords :
        Contains(lower(title), keywords_dict[i].keywords[n])

\* some phrase of some group, lower-cased, is in the lower-cased title
LoweredHit(title, keywords_dict) ==
    \E i \in DOMAIN keywords_dict : \E n \in DOMAIN keywords_dict[i].keywords :
        Contains(lower(title), lower(keywords_dict[i].keywords[n]))

\* C14 as claimed: categorize gives every row a category that is a key of the
\* mapping or "Other", and "Other" exactly when no keyword phrase of any group
\* is a substring of the lower-cased title.
C14_OtherIffNoLiteralHit ==
    Categorized =>
        \A k \in DOMAIN last.ret.rows :
            /\ last.ret.rows[k].category \in NamesOf(last.arg[2]) \cup {"Other"}
            /\ last.ret.rows[k].category = "Other"
                  <=> ~LiteralHit(last.arg[1].rows[k].title, last.arg[2])

\* C14 amended: categorize gives every row a category that is a key of the
\* mapping or "Other", and "Other" exactly when no keyword phrase of any
\* group, lower-cased, is a substring of the lower-cased title.
C14_OtherIffNoLoweredHit ==
    Categorized =>
        /\ Len(last.ret.rows) = Len(last.arg[1].rows)
        /\ \A k \in DOMAIN last.ret.rows :
            /\ last.ret.rows[k].title = last.arg[1].rows[k].title
            /\ last.ret.rows[k].category \in NamesOf(last.arg[2]) \cup {"Other"}
            /\ last.ret.rows[k].category = "Other"
                  <=> ~LoweredHit(last.arg[1].rows[k].title, last.arg[2])

\* the scenario of the spec: 'Python for Data Science' and 'Unrelated'
\* against {Python: [python], DevOps: [docker]} get Python and Other
C14_Witness ==
    /\ Categorized
    /\ last.arg[2] = << [name |-> "Python", keywords |-> <<"python">>],
                        [name |-> "DevOps", keywords |-> <<"docker">>] >>
    /\ Len(last.ret.rows) = 2
    /\ last.ret.rows[1].title = "Python for Data Science"
    /\ last.ret.rows[1].category = "Python"
    /\ last.ret.rows[2].title = "Unrelated"
    /\ last.ret.rows[2].category = "Other"

\* the number of phrases of a group that, as written, are in the lower-cased
\* title
LiteralScore(title, kws) ==
    Cardinality({ n \in DOMAIN kws : Contains(lower(title), kws[n]) })

\* the number of phrases of a group that, lower-cased, are in the lower-cased
\* title
LoweredScore(title, kws) ==
    Cardinality({ n \in DOMAIN kws : Contains(lower(title), lower(kws[n])) })

\* C20 as claimed: categorize picks the group with the highest score, the
\* score being the number of the group's phrases that are substrings of the
\* lower-cased title, and among groups with the highest score the first in
\* the mapping's order.
C20_HighestLiteralScoreFirst ==
    Categorized =>
        \A k \in DOMAIN last.ret.rows :
            LET title == last.arg[1].rows[k].title
                kd == last.arg[2]
            IN LiteralHit(title, kd) =>
                \E i \in DOMAIN kd :
                    /\ last.ret.rows[k].category = kd[i].name
                    /\ \A j \in DOMAIN kd :
                          LiteralScore(title, kd[j].keywords)
                              <= LiteralScore(title, kd[i].keywords)
                    /\ \A j \in 1..(i - 1) :
                          LiteralScore(title, kd[j].keywords)
                              < LiteralScore(title, kd[i].keywords)

\* C20 amended: the same with the score of a group being the number of its
\* phrases that, lower-cased, are substrings of the lower-cased title.
C20_HighestLoweredScoreFirst ==
    Categorized =>
        \A k \in DOMAIN last.ret.rows :
            LET title == last.arg[1].rows[k].title
                kd == last.arg[2]
            IN LoweredHit(title, kd) =>
                \E i \in DOMAIN kd :
                    /\ last.ret.rows[k].category = kd[i].name
                    /\ LoweredScore(title, kd[i].keywords) > 0
                    /\ \A j \in DOMAIN kd :
                          LoweredScore(title, kd[j].keywords)
                              <= LoweredScore(title, kd[i].keywords)
                    /\ \A j \in 1..(i - 1) :
                          LoweredScore(title, kd[j].keywords)
                              < LoweredScore(title, kd[i].keywords)

\* 'Docker and AI' against the configured groups: AI and DevOps both score 1
\* and AI, which is configured first, is chosen
C20_Witness ==
    /\ Categorized
    /\ last.arg[2] = TECH_KEYWORDS
    /\ \E k \in DOMAIN last.ret.rows :
          /\ last.ret.rows[k].title = "Docker and AI"
          /\ LoweredScore("Docker and AI", TECH_KEYWORDS[1].keywords) = 1
          /\ LoweredScore("Docker and AI", TECH_KEYWORDS[4].keywords) = 1
          /\ last.ret.rows[k].category = "AI"

Ranked == last.op = "get_top_articles"

\* the position in the table of a returned row; a merged table has each
\* title once
Pos(df, row) == CHOOSE i \in DOMAIN df.rows : df.rows[i].title = row.title

Returned(df, out) == { Pos(df, out[k]) : k \in DOMAIN out }

\* C15 as claimed: for every table and column name, topArticles(table, metric,
\* N) returns min(N, row count) rows in non-increasing order of the metric,
\* which are rows with the N largest values, rows of equal value being in
\* their original order.
C15_TopRowsAnyColumn ==
    Ranked =>
        LET df == last.arg[1]
            metric == last.arg[2]
            top_n == last.arg[3]
            out == last.ret.rows
        IN /\ ~last.raised
           /\ Len(out) = Min2(top_n, Len(df.rows))
           /\ \A k \in DOMAIN out : out[k] \in Range(df.rows)
           /\ \A k, l \in DOMAIN out : k < l => out[k][metric] >= out[l][metric]
           /\ \A k \in DOMAIN out : \A i \in DOMAIN df.rows \ Returned(df, out) :
                 df.rows[i][metric] <= out[k][metric]
           /\ \A k, l \in DOMAIN out :
                 (k < l /\ out[k][metric] = out[l][metric]) => Pos(df, out[k]) < Pos(df, out[l])

\* C15 amended: for every non-empty table, every numeric column of it and
\* every N >= 0, topArticles returns min(N, row count) different rows of the
\* table without raising; the rows that have a value come first, in
\* non-increasing order of it, and the rows without one last; a row left out
\* has no value or one no larger than every returned row's; and when N is
\* below the row count, rows of equal value are returned in their original
\* order, the earlier ones first.
C15_TopRowsNumericColumn ==
    (/\ Ranked
     /\ ~IsEmpty(last.arg[1])
     /\ last.arg[2] \in last.arg[1].columns \ TextColumns) =>
        LET df == last.arg[1]
            metric == last.arg[2]
            top_n == last.arg[3]
            out == last.ret.rows
            left_out == DOMAIN df.rows \ Returned(df, out)
        IN /\ ~last.raised
           /\ Len(out) = Min2(top_n, Len(df.rows))
           /\ \A k \in DOMAIN out : out[k] \in Range(df.rows)
           /\ \A k, l \in DOMAIN out : out[k] = out[l] => k = l
           /\ \A k, l \in DOMAIN out :
                 k < l => \/ out[l][metric] = NaN
                          \/ out[k][metric] # NaN /\ out[k][metric] >= out[l][metric]
           /\ \A k \in DOMAIN out : \A i \in left_out :
                 \/ df.rows[i][metric] = NaN
                 \/ out[k][metric] # NaN /\ df.rows[i][metric] <= out[k][metric]
           /\ top_n < Len(df.rows) =>
                 /\ \A k, l \in DOMAIN out :
                       (k < l /\ out[k][metric] = out[l][metric])
                           => Pos(df, out[k]) < Pos(df, out[l])
                 /\ \A k \in DOMAIN out : \A i \in left_out :
                       df.rows[i][metric] = out[k][metric] => Pos(df, out[k]) < i

\* the top 2 by points of a table of three rows whose second row has more
\* points than its first and whose third has none
C15_Witness ==
    /\ Ranked
    /\ last.arg[2] = "points"
    /\ last.arg[3] = 2
    /\ Len(last.arg[1].rows) = 3
    /\ last.arg[1].rows[1].points = 1
    /\ last.arg[1].rows[2].points = 2
    /\ last.arg[1].rows[3].points = NaN
    /\ Len(last.ret.rows) = 2
    /\ last.ret.rows[1] = last.arg[1].rows[2]
    /\ last.ret.rows[2] = last.arg[1].rows[1]

----------------------------------------------------------------------------
(* The source adapters: src/src/scraper_hackernews.py and
   src/src/api_devto.py, and SpecAdapters *)

MAX_ARTICLES_PER_SOURCE == 50

\* how the HTTP request of an adapter ends: with a response whose document
\* parses, or with an exception of requests.get (connection, timeout), of
\* raise_for_status, or of the parsing of the document
FetchOutcomes == {"ok", "connection_error", "timeout", "http_error", "bad_document"}

\* an exception inside a try block, and a value computed by it
Raise == [raised |-> TRUE, value |-> <<>>]

Value(v) == [raised |-> FALSE, value |-> v]

\* try: body  except Exception: return []
TryOrEmpty(body) == IF body.raised THEN Value(<<>>) ELSE body

\* mutant: the exception of the body reaches the caller
TryOrPropagate(body) == body

\* text.split()[0]: the text up to its first blank
RECURSIVE FirstToken(_)
FirstToken(text) ==
    IF text = "" \/ Chr(text, 1) = " " THEN ""
    ELSE Chr(text, 1) \o FirstToken(Rest(text))

\* str.isdigit() of a token
IsNumber(token) == token # "" /\ \A i \in 1..Len(token) : IsDigit(Chr(token, i))

DigitValue(c) == (CHOOSE i \in 1..Len(Digits) : Chr(Digits, i) = c) - 1

\* int(token) of a token of digits
RECURSIVE ToInt(_)
ToInt(token) ==
    IF token = "" THEN 0
    ELSE 10 * ToInt(SubSeq(token, 1, Len(token) - 1)) + DigitValue(Chr(token, Len(token)))

StartsWith(text, prefix) ==
    Len(text) >= Len(prefix) /\ SubSeq(text, 1, Len(prefix)) = prefix

BaseUrl == "https://news.ycombinator.com/"

\* the body of the per-entry try block of scrape_frontpage on one story
\* entry of the page: the record, nothing when the entry has no link
\* (continue), or the ValueError of int() on a score that is not a number
ParseEntry(entry) ==
    IF ~entry.link THEN Value(<<>>)
    ELSE IF entry.score # NoKey /\ entry.score # "" /\ ~IsNumber(FirstToken(entry.score))
    THEN Raise
    ELSE LET url == IF StartsWith(entry.href, "item?id=") THEN BaseUrl \o entry.href
                    ELSE entry.href
             points == IF entry.score = NoKey \/ entry.score = "" THEN 0
                       ELSE ToInt(FirstToken(entry.score))
             comments == IF Contains(entry.last, "comment") /\ IsNumber(FirstToken(entry.last))
                         THEN ToInt(FirstToken(entry.last))
                         ELSE 0
         IN Value(<< [HNRecord(entry.title, url) EXCEPT
                         !.points = points, !.comments = comments] >>)

\* the loop of scrape_frontpage over the first max_articles entries; an
\* entry whose parsing raises is logged and skipped
RECURSIVE ParseEntries(_, _)
ParseEntries(entries, max_articles) ==
    IF entries = <<>> \/ max_articles <= 0 THEN <<>>
    ELSE TryOrEmpty(ParseEntry(Head(entries))).value
            \o ParseEntries(Tail(entries), max_articles - 1)

\* mutant: the request is made outside the try block
scrape_frontpage_unguarded(outcome, entries, max_articles) ==
    TryOrPropagate(IF outcome # "ok" THEN Raise
                   ELSE Value(ParseEntries(entries, max_articles)))

\* HackerNewsScraper.scrape_frontpage
scrape_frontpage(outcome, entries, max_articles) ==
    TryOrEmpty(IF outcome # "ok" THEN Raise
               ELSE Value(ParseEntries(entries, max_articles)))

\* a JSON value of the Dev.to answer that is not an object (null, a text)
NotADict == [nondict |-> TRUE]

IsDict(art) == "nondict" \notin DOMAIN art

\* the record _fetch builds from one element of the answer; art.get raises
\* AttributeError on an element that is not an object, and so does
\* art.get("user", {}).get on a user that is null
Processed1(art) ==
    IF ~IsDict(art) THEN Raise
    ELSE IF "user" \in DOMAIN art /\ ~IsDict(art.user) THEN Raise
    ELSE Value([ title |-> Get(art, "title", ""),
                 description |-> Get(art, "description", ""),
                 url |-> Get(art, "url", ""),
                 published_at |-> Get(art, "published_at", ""),
                 tags |-> Get(art, "tag_list", <<>>),
                 reactions |-> Get(art, "positive_reactions_count", 0),
                 comments |-> Get(art, "comments_count", 0),
                 reading_time |-> Get(art, "reading_time_minutes", 0),
                 author |-> IF "user" \in DOMAIN art THEN Get(art.user, "name", "Unknown")
                            ELSE "Unknown",
                 source |-> "Dev.to",
                 fetched_at |-> "2024-01-03" ])

\* DevToAPI._fetch: one try block around the request and the whole loop
fetch(outcome, raw_articles) ==
    TryOrEmpty(IF outcome # "ok" THEN Raise
               ELSE IF \E i \in DOMAIN raw_articles : Processed1(raw_articles[i]).raised
               THEN Raise
               ELSE Value([ i \in DOMAIN raw_articles |-> Processed1(raw_articles[i]).value ]))

\* story entries of a front page: a full one, one with an internal link and
\* no score, one without a link, one whose score is not a number
HNEntries ==
    { [link |-> TRUE, title |-> "A", href |-> "https://a", score |-> "10 points",
       last |-> "3 comments"],
      [link |-> TRUE, title |-> "B", href |-> "item?id=1", score |-> NoKey,
       last |-> "discuss"],
      [link |-> FALSE, title |-> "", href |-> "", score |-> NoKey, last |-> ""],
      [link |-> TRUE, title |-> "C", href |-> "https://c", score |-> "x points",
       last |-> "hide"] }

\* elements of a Dev.to answer: a full one, one with a title only, one whose
\* user is null, one that is not an object
DevtoElements ==
    { [title |-> "A", url |-> "u1", positive_reactions_count |-> 5, user |-> [name |-> "N"]],
      [title |-> "B"],
      [title |-> "C", user |-> NotADict],
      NotADict }

DevtoMethods == {"get_latest_articles", "get_articles_by_tag", "get_top_articles"}

call_scrape_frontpage(outcome, entries, max_articles) ==
    LET r == scrape_frontpage(outcome, entries, max_articles)
    IN /\ Idle
       /\ last' = [Call("scrape_frontpage", <<outcome, entries, max_articles>>, r.value)
                      EXCEPT !.raised = r.raised]
       /\ UNCHANGED <<articles, search_history, writers, connections, clock>>

\* get_latest_articles, get_articles_by_tag, get_top_articles: each builds
\* its query parameters and returns _fetch(params)
call_devto(method, outcome, raw_articles) ==
    LET r == fetch(outcome, raw_articles)
    IN /\ Idle
       /\ last' = [Call(method, <<outcome, raw_articles>>, r.value)
                      EXCEPT !.raised = r.raised]
       /\ UNCHANGED <<articles, search_history, writers, connections, clock>>

NextAdapters ==
    \/ \E outcome \in FetchOutcomes, entries \in Lists(HNEntries, MaxEntries),
          max_articles \in {1, MAX_ARTICLES_PER_SOURCE} :
          call_scrape_frontpage(outcome, entries, max_articles)
    \/ \E method \in DevtoMethods, outcome \in FetchOutcomes,
          raw \in Lists(DevtoElements, MaxEntries) :
          call_devto(method, outcome, raw)
    \/ Continue

SpecAdapters == Init /\ [][NextAdapters]_vars

Fetched == last.op \in DevtoMethods \cup {"scrape_frontpage"}

\* C16: the public entry points of both adapters never raise; when the
\* request or the parsing of the document fails they return an empty list,
\* and otherwise a list of records of their source.
C16_AdaptersNeverRaise ==
    Fetched =>
        /\ ~last.raised
        /\ last.arg[1] # "ok" => last.ret = <<>>
        /\ \A i \in DOMAIN last.ret :
              /\ last.ret[i].source = (IF last.op = "scrape_frontpage" THEN "HackerNews"
                                       ELSE "Dev.to")
              /\ {"title", "url", "comments", "reactions", "reading_time", "author"}
                    \subseteq DOMAIN last.ret[i]

\* the front page answered with an HTTP error status: an empty list is
\* returned
C16_Witness ==
    /\ last.op = "scrape_frontpage"
    /\ last.arg[1] = "http_error"
    /\ last.arg[2] # <<>>
    /\ ~last.raised
    /\ last.ret = <<>>

----------------------------------------------------------------------------
(* insert_articles when the store fails: SpecFailures *)

\* what can fail in one call: sqlite3.connect, the execute of the records at
\* some positions of the batch, the commit
Failures ==
    [ connect : BOOLEAN, execute : SUBSET (1..MaxBatch), commit : BOOLEAN ]

\* a record the per-record try block of insert_articles raises on before the
\* statement runs: one that is not a dict (article.get raises
\* AttributeError), or one whose tags list holds None (",".join raises
\* TypeError)
Malformed(article) ==
    \/ ~IsDict(article)
    \/ /\ "tags" \in DOMAIN article
       /\ \E k \in DOMAIN article.tags : article.tags[k] = NULL

\* mutant: the first record that raises ends the loop
RECURSIVE InsertLoopAborting(_, _, _, _, _)
InsertLoopAborting(table, batch, inserted, execute, i) ==
    IF i > Len(batch) THEN [table |-> table, inserted |-> inserted]
    ELSE IF i \in execute \/ Malformed(batch[i])
    THEN [table |-> table, inserted |-> inserted]
    ELSE LET r == InsertOrIgnore(table, Row(batch[i]))
         IN InsertLoopAborting(r.table, batch,
                               IF r.rowcount > 0 THEN inserted + 1 ELSE inserted,
                               execute, i + 1)

\* the loop of insert_articles from record i on: a record that is malformed
\* or whose execute raises is caught by the per-record except, logged, and
\* the loop goes on
RECURSIVE InsertLoopFailing(_, _, _, _, _)
InsertLoopFailing(table, batch, inserted, execute, i) ==
    IF i > Len(batch) THEN [table |-> table, inserted |-> inserted]
    ELSE IF i \in execute \/ Malformed(batch[i])
    THEN InsertLoopFailing(table, batch, inserted, execute, i + 1)
    ELSE LET r == InsertOrIgnore(table, Row(batch[i]))
         IN InsertLoopFailing(r.table, batch,
                              IF r.rowcount > 0 THEN inserted + 1 ELSE inserted,
                              execute, i + 1)

\* Database.insert_articles with failures: the connection is opened before
\* the try block, so its exception reaches the caller; a commit that raises
\* is caught by the outer except, which rolls back and returns 0
insert_articles_failing(batch, failure) ==
    LET r == InsertLoopFailing(articles, batch, 0, failure.execute, 1)
        call == Call("insert_articles_failing", <<batch, failure>>, 0)
    IN /\ Idle
       /\ IF batch = <<>>
          THEN /\ last' = call
               /\ UNCHANGED articles
          ELSE IF failure.connect
          THEN /\ last' = [call EXCEPT !.raised = TRUE]
               /\ UNCHANGED articles
          ELSE IF failure.commit
          THEN /\ last' = call
               /\ UNCHANGED articles
          ELSE /\ last' = [call EXCEPT !.ret = r.inserted]
               /\ articles' = r.table
       /\ UNCHANGED <<search_history, writers, connections, clock>>

FailArticles == { StoreArticle(t, "HackerNews", u) : t \in Titles, u \in {"u1", "u2"} }

\* records the per-record try block raises on: None, and a record whose tags
\* list holds None
MalformedArticles ==
    { NotADict, StoreArticle("A", "HackerNews", "u1") @@ ("tags" :> <<"x", NULL>>) }

NextFailures ==
    \/ \E batch \in Lists(FailArticles \cup MalformedArticles, MaxBatch),
          failure \in Failures :
          insert_articles_failing(batch, failure)
    \/ Continue

SpecFailures == Init /\ [][NextFailures]_vars

\* the call met a failure: the connection, the commit, or the execute of one
\* of its records
Failed ==
    /\ last.op = "insert_articles_failing"
    /\ last.arg[1] # <<>>
    /\ \/ last.arg[2].connect
       \/ last.arg[2].commit
       \/ last.arg[2].execute \cap DOMAIN last.arg[1] # {}

\* C17: on a persistence failure (to open the connection, to execute, to
\* commit) insert_articles does not raise, returns 0, and leaves the
\* articles table as it was before the call.
C17_FailureReturnsZero ==
    Failed =>
        /\ ~last.raised
        /\ last.ret = 0
        /\ articles = last.before

\* the call met no persistence failure
Persisted ==
    /\ last.op = "insert_articles_failing"
    /\ ~last.arg[2].connect
    /\ ~last.arg[2].commit
    /\ last.arg[2].execute \cap DOMAIN last.arg[1] = {}

\* C24: a record of a batch whose insertion fails because its data is
\* malformed is skipped and not counted, and the other records are processed
\* as if it were absent: the call does not raise, the table is what the
\* batch without the malformed records gives, and the count returned is the
\* count of that batch.
C24_MalformedRecordSkipped ==
    Persisted =>
        LET others == SelectSeq(last.arg[1], LAMBDA a : ~Malformed(a))
            r == InsertLoop(last.before, others, 0)
        IN /\ ~last.raised
           /\ articles = r.table
           /\ last.ret = r.inserted

\* a batch whose first record is malformed and whose second is new: one row
\* is added and counted
C24_Witness ==
    /\ Persisted
    /\ Len(last.arg[1]) = 2
    /\ Malformed(last.arg[1][1])
    /\ ~Malformed(last.arg[1][2])
    /\ last.ret = 1
    /\ articles = Append(last.before, Row(last.arg[1][2]))

----------------------------------------------------------------------------
(* Two writers in insert_articles at the same time: SpecWriters.
   Each call has its own connection. The first INSERT of a connection takes
   the write lock of the database file and holds it until the commit; rows
   written are visible to other connections from the commit on. An INSERT
   of the other connection waits for the lock, and when the wait exceeds the
   connection's timeout it raises "database is locked", which the
   per-record except of insert_articles logs before going on to the next
   record. *)

WriterIds == {1, 2}

Other(w) == 3 - w

\* mutant: no write lock, each connection checks the constraints against the
\* committed rows and its own
LockFreeAlways(w) == TRUE

\* the other connection does not hold the write lock
LockFree(w) == ~writers[Other(w)].locked

NextRecord(wr) ==
    [wr EXCEPT !.i = @ + 1,
               !.pc = IF wr.i = Len(wr.batch) THEN "commit" ELSE "insert"]

\* both callers enter insert_articles; an empty batch returns 0 at once
start_writers(batch1, batch2) ==
    /\ Idle
    /\ writers = <<>>
    /\ writers' = [ w \in WriterIds |->
                      [ batch |-> <<batch1, batch2>>[w], i |-> 1, inserted |-> 0,
                        pending |-> <<>>, locked |-> FALSE, timeouts |-> 0,
                        pc |-> IF <<batch1, batch2>>[w] = <<>> THEN "done" ELSE "insert",
                        ret |-> 0 ] ]
    /\ last' = Call("insert_articles_concurrently", <<batch1, batch2>>, <<>>)
    /\ UNCHANGED <<articles, search_history, connections, clock>>

\* cursor.execute of the next record, against the committed rows and the
\* rows this connection has written
writer_execute(w) ==
    /\ w \in DOMAIN writers
    /\ writers[w].pc = "insert"
    /\ LockFree(w)
    /\ LET wr == writers[w]
           row == Row(wr.batch[wr.i])
           r == InsertOrIgnore(articles \o wr.pending, row)
       IN writers' = [writers EXCEPT ![w] =
              [NextRecord(wr) EXCEPT
                  !.locked = TRUE,
                  !.pending = IF r.rowcount > 0 THEN Append(wr.pending, row) ELSE wr.pending,
                  !.inserted = IF r.rowcount > 0 THEN wr.inserted + 1 ELSE wr.inserted]]
    /\ UNCHANGED <<articles, search_history, last, connections, clock>>

\* cursor.execute gives up waiting for the lock: the record is skipped
writer_locked_out(w) ==
    /\ w \in DOMAIN writers
    /\ writers[w].pc = "insert"
    /\ ~LockFree(w)
    /\ writers' = [writers EXCEPT ![w] =
           [NextRecord(writers[w]) EXCEPT !.timeouts = @ + 1]]
    /\ UNCHANGED <<articles, search_history, last, connections, clock>>

\* conn.commit() and return inserted
writer_commit(w) ==
    /\ w \in DOMAIN writers
    /\ writers[w].pc = "commit"
    /\ articles' = articles \o writers[w].pending
    /\ writers' = [writers EXCEPT ![w] =
           [@ EXCEPT !.pc = "done", !.locked = FALSE, !.pending = <<>>,
                     !.ret = writers[w].inserted]]
    /\ UNCHANGED <<search_history, last, connections, clock>>

NextWriters ==
    \/ \E batch1, batch2 \in Lists(FailArticles, MaxBatch) : start_writers(batch1, batch2)
    \/ \E w \in WriterIds : writer_execute(w)
    \/ \E w \in WriterIds : writer_locked_out(w)
    \/ \E w \in WriterIds : writer_commit(w)
    \/ Continue

SpecWriters == Init /\ [][NextWriters]_vars

\* both writers have returned
BothReturned ==
    /\ last.op = "insert_articles_concurrently"
    /\ writers # <<>>
    /\ \A w \in WriterIds : writers[w].pc = "done"

PairOf(article) == <<Row(article).title, Row(article).source>>

PairsOf(batch) == { PairOf(batch[i]) : i \in DOMAIN batch }

SharedPairs == PairsOf(last.arg[1]) \cap PairsOf(last.arg[2])

RowsOfPair(table, pair) ==
    { i \in DOMAIN table : <<table[i].title, table[i].source>> = pair }

\* no record of the two batches with this pair has the url of a stored row
\* or of a record that has another pair
NoUrlClash(pair) ==
    LET records == Range(last.arg[1]) \cup Range(last.arg[2])
    IN \A r \in records :
          PairOf(r) = pair =>
              /\ \A q \in records : Row(q).url = Row(r).url => PairOf(q) = pair
              /\ \A i \in DOMAIN last.before :
                    last.before[i].url = Row(r).url => i \in RowsOfPair(last.before, pair)

----------------------------------------------------------------------------
(* Claims about get_all_articles (Spec) *)

\* C19: get_all_articles(limit) returns stored rows in non-increasing
\* published_at order (rows without a date last); with an integer limit it
\* returns exactly min(limit, stored row count) rows, and with no limit all
\* rows.
C19_OrderedAndCapped ==
    last.op = "get_all_articles" =>
        /\ \A k \in DOMAIN last.ret : last.ret[k] \in Range(articles)
        /\ \A k, l \in DOMAIN last.ret :
              k < l => ~SqlLess(last.ret[k].published_at, last.ret[l].published_at)
        /\ last.arg = NoLimit => Len(last.ret) = Len(articles)
        /\ last.arg # NoLimit => Len(last.ret) = Min2(last.arg[1], Len(articles))

----------------------------------------------------------------------------
(* Keywords: extract_keywords and get_trending_topics, and SpecKeywords *)

\* DataProcessor.stop_words
stop_words ==
    { "the", "a", "an", "and", "or", "but", "in", "on", "at", "to", "for",
      "of", "with", "by", "from", "as", "is", "was", "are", "were", "be",
      "been", "being", "have", "has", "had", "do", "does", "did", "will",
      "would", "should", "could", "may", "might", "can", "this", "that",
      "these", "those", "i", "you", "he", "she", "it", "we", "they" }

\* the characters \w matches, on the characters the model's texts use
WordChars == LowerAscii \o UpperAscii \o Digits \o "_"

IsWordChar(c) == \E i \in 1..Len(WordChars) : Chr(WordChars, i) = c

\* re.sub(r"[^\w\s]", " ", text): every character that is neither a word
\* character nor white space becomes a space
RECURSIVE StripPunctuation(_)
StripPunctuation(text) ==
    IF text = "" THEN ""
    ELSE (IF IsWordChar(Chr(text, 1)) \/ Chr(text, 1) = " " THEN Chr(text, 1) ELSE " ")
            \o StripPunctuation(Rest(text))

\* str.split(): the maximal runs of non-space characters, never an empty one;
\* `word` is the run being read
RECURSIVE Split(_, _)
Split(text, word) ==
    IF text = "" THEN (IF word = "" THEN <<>> ELSE <<word>>)
    ELSE IF Chr(text, 1) = " "
         THEN (IF word = "" THEN <<>> ELSE <<word>>) \o Split(Rest(text), "")
         ELSE Split(Rest(text), word \o Chr(text, 1))

\* mutant: the text is not lower-cased before it is split
WordsAsWritten(text) == Split(StripPunctuation(text), "")

\* lines 75-77: lower-case, strip, split
Words(text) == Split(StripPunctuation(lower(text)), "")

\* line 79: the words that are no stop-word and longer than 3 characters
Filtered(words) ==
    SelectSeq(words, LAMBDA w : w \notin stop_words /\ Len(w) > 3)

\* the distinct elements of a list in the order of their first occurrence
RECURSIVE FirstOccurrences(_, _)
FirstOccurrences(words, seen) ==
    IF words = <<>> THEN <<>>
    ELSE IF Head(words) \in seen THEN FirstOccurrences(Tail(words), seen)
    ELSE <<Head(words)>> \o FirstOccurrences(Tail(words), seen \cup {Head(words)})

Occurrences(words, w) == Cardinality({ i \in DOMAIN words : words[i] = w })

\* Counter(filtered).items(): (term, count) in insertion order
Counter(words) ==
    LET terms == FirstOccurrences(words, {})
    IN [ k \in DOMAIN terms |-> <<terms[k], Occurrences(words, terms[k])>> ]

\* one pair put into a list sorted by descending count, after the pairs of
\* the same count
RECURSIVE InsertByCount(_, _)
InsertByCount(sorted, pair) ==
    IF sorted = <<>> THEN <<pair>>
    ELSE IF Head(sorted)[2] >= pair[2]
         THEN <<Head(sorted)>> \o InsertByCount(Tail(sorted), pair)
         ELSE <<pair>> \o sorted

\* sorted(items, key=count, reverse=True): stable
RECURSIVE SortedByCount(_)
SortedByCount(items) ==
    IF items = <<>> THEN <<>>
    ELSE InsertByCount(SortedByCount(SubSeq(items, 1, Len(items) - 1)),
                       items[Len(items)])

\* Counter.most_common(n): heapq.nlargest(n, items, key=count), which is
\* sorted(items, key=count, reverse=True)[:n], and empty for n <= 0
most_common(items, n) ==
    IF n <= 0 THEN <<>> ELSE Take(SortedByCount(items), n)

\* DataProcessor.extract_keywords
extract_keywords(text, top_n) ==
    IF text = "" THEN <<>>
    ELSE most_common(Counter(Filtered(Words(text))), top_n)

\* df[column].dropna().astype(str) of a text column
NonNull(df, column) ==
    SelectSeq([ i \in DOMAIN df.rows |-> df.rows[i][column] ], LAMBDA v : v # NULL)

\* DataProcessor.get_trending_topics
get_trending_topics(df, column, top_n) ==
    IF IsEmpty(df) \/ column \notin df.columns THEN <<>>
    ELSE extract_keywords(Join(" ", NonNull(df, column)), top_n)

MaxWords == 3

\* pieces of text: capitals, punctuation inside and after a word, stop-words
\* in either case, a short word, an empty piece (two spaces in a row)
Pieces == {"Python", "python,", "data", "THIS", "e-mail", "the", ""}

Texts == { Join(" ", ws) : ws \in Lists(Pieces, MaxWords) }

TopNs == 0..MaxTop

\* processor.extract_keywords(text, top_n)
call_extract_keywords(text, top_n) ==
    Returns("extract_keywords", <<text, top_n>>, extract_keywords(text, top_n))

TrendTitles == {"Python data", "THIS data, python", ""}

TrendDescriptions == {NoKey, NULL, "e-mail data"}

\* rows as the store returns them or as a caller builds them: a description
\* can be missing or None
TrendRecords ==
    { [title |-> t] @@ Opt("description", d) : t \in TrendTitles, d \in TrendDescriptions }

TrendColumns == {"title", "description", "summary"}

\* processor.get_trending_topics(df, column, top_n) on the frame of a record
\* list
call_get_trending_topics(records, column, top_n) ==
    LET df == IF records = <<>> THEN EmptyFrame ELSE Frame(records)
    IN Returns("get_trending_topics", <<df, column, top_n>>,
               get_trending_topics(df, column, top_n))

NextKeywords ==
    \/ \E text \in Texts, top_n \in TopNs : call_extract_keywords(text, top_n)
    \/ \E records \in Lists(TrendRecords, MaxRows) :
       \E column \in TrendColumns, top_n \in TopNs :
          call_get_trending_topics(records, column, top_n)
    \/ Continue

SpecKeywords == Init /\ [][NextKeywords]_vars

\* the tokens of a text: it is lower-cased, every character other than a
\* letter, a digit, an underscore or a space is a separator
Tokens(text) == Split(StripPunctuation(lower(text)), "")

FirstIndex(words, w) == CHOOSE i \in DOMAIN words : words[i] = w /\ \A j \in 1..(i - 1) : words[j] # w

\* pairs is a result the claim allows for the text and top_n
KeywordsOf(pairs, text, top_n) ==
    LET tokens == Tokens(text)
    IN /\ Len(pairs) <= top_n
       /\ \A k \in DOMAIN pairs :
             /\ pairs[k][1] \notin stop_words
             /\ Len(pairs[k][1]) > 3
             /\ pairs[k][2] > 0
             /\ pairs[k][2] = Occurrences(tokens, pairs[k][1])
       /\ \A k, l \in DOMAIN pairs :
             k < l =>
                \/ pairs[k][2] > pairs[l][2]
                \/ /\ pairs[k][2] = pairs[l][2]
                   /\ FirstIndex(tokens, pairs[k][1]) < FirstIndex(tokens, pairs[l][1])
       /\ text = "" => pairs = <<>>

\* the values of the column that are not null, joined by spaces; a table
\* without the column has no such value
ColumnText(df, column) ==
    IF column \in df.columns THEN Join(" ", NonNull(df, column)) ELSE ""

\* C21: extract_keywords returns at most top_n (term, count) pairs, no term a
\* stop-word or of length 3 or less, each count the number of occurrences of
\* the term among the tokens, in descending count order with equal counts in
\* order of first occurrence, and nothing for the empty text;
\* get_trending_topics returns the result of extract_keywords for the
\* space-joined non-null values of the column.
C21_KeywordsRanked ==
    /\ last.op = "extract_keywords" =>
          KeywordsOf(last.ret, last.arg[1], last.arg[2])
    /\ last.op = "get_trending_topics" =>
          /\ KeywordsOf(last.ret, ColumnText(last.arg[1], last.arg[2]), last.arg[3])
          /\ last.ret = extract_keywords(ColumnText(last.arg[1], last.arg[2]), last.arg[3])

\* a text in which a term occurs twice, once with a capital and once before
\* a comma, after a term that occurs once: the frequent term comes first
C21_Witness ==
    /\ last.op = "extract_keywords"
    /\ last.arg = <<"data Python python,", 2>>
    /\ last.ret = << <<"python", 2>>, <<"data", 1>> >>

\* the titles of two rows are joined: the term both hold is counted twice
C21_TrendingWitness ==
    /\ last.op = "get_trending_topics"
    /\ last.arg[2] = "title"
    /\ last.arg[3] = 1
    /\ Len(last.arg[1].rows) = 2
    /\ last.ret = << <<"data", 2>> >>

----------------------------------------------------------------------------
(* Claims about single records in the adapters (SpecAdapters) *)

\* the story entries the loop of scrape_frontpage looks at
Considered(entries, max_articles) == Take(entries, max_articles)

\* a story entry whose parsing raises, and a Dev.to element whose
\* conversion raises
BadEntry(entry) == ParseEntry(entry).raised

BadElement(art) == Processed1(art).raised

\* C22: in each adapter a parse error on one record makes only that record
\* be skipped: the records of all the other well-formed records of the batch
\* are returned, in their order.
C22_OnlyBadRecordSkipped ==
    (Fetched /\ last.arg[1] = "ok") =>
        IF last.op = "scrape_frontpage"
        THEN LET good == SelectSeq(Considered(last.arg[2], last.arg[3]),
                                   LAMBDA e : e.link /\ ~BadEntry(e))
             IN /\ Len(last.ret) = Len(good)
                /\ \A k \in DOMAIN good : last.ret[k] = ParseEntry(good[k]).value[1]
        ELSE LET good == SelectSeq(last.arg[2], LAMBDA a : ~BadElement(a))
             IN /\ Len(last.ret) = Len(good)
                /\ \A k \in DOMAIN good : last.ret[k] = Processed1(good[k]).value

\* What the code does keep of C22: the HackerNews scraper skips only the
\* entry whose parsing raises.
ScraperSkipsOnlyBadEntry ==
    (last.op = "scrape_frontpage" /\ last.arg[1] = "ok") => C22_OnlyBadRecordSkipped

\* the integer a score text starts with, 0 when there is none
LeadingInteger(score) ==
    IF score = NoKey THEN 0
    ELSE IF IsNumber(FirstToken(score)) THEN ToInt(FirstToken(score))
    ELSE 0

\* C23: for every story entry with a title link the scraper returns a record
\* whose points is the leading integer of the score text, and 0 when the
\* score element is absent or its text does not start with an integer.
C23_PointsDefaultZero ==
    (last.op = "scrape_frontpage" /\ last.arg[1] = "ok") =>
        LET linked == SelectSeq(Considered(last.arg[2], last.arg[3]), LAMBDA e : e.link)
        IN /\ Len(last.ret) = Len(linked)
           /\ \A k \in DOMAIN linked :
                 /\ last.ret[k].title = linked[k].title
                 /\ last.ret[k].points = LeadingInteger(linked[k].score)

\* What the code does keep of C23: an entry with a score that starts with an
\* integer gets that integer, an entry without a score element gets 0.
PointsOfParsedScore ==
    (last.op = "scrape_frontpage" /\ last.arg[1] = "ok") =>
        \A k \in DOMAIN last.ret :
            \E e \in Range(Considered(last.arg[2], last.arg[3])) :
                /\ e.link /\ e.title = last.ret[k].title
                /\ ~BadEntry(e)
                /\ last.ret[k].points = LeadingInteger(e.score)

----------------------------------------------------------------------------
(* The whole store, with its failures, its connections and the clock:
   SpecStore *)

MaxOpen == 2

MaxClock == 1

\* every read, save_search and _init_db open the connection inside the try
\* block and close it as the last statement before the return: a statement
\* that raises in between skips the close. The connection object then stays
\* open until the garbage collector reclaims it, which the language does not
\* promise to happen at the return: `reclaimed` is whether it has happened
\* when the caller goes on.
LeftOpen(reclaimed) == IF reclaimed THEN connections ELSE connections + 1

\* where a read can raise: sqlite3.connect (no connection is opened), or the
\* query (database locked, table missing, malformed LIMIT)
ReadFailures == {"connect", "query"}

ReadOps == { "get_all_articles", "get_articles_by_source", "get_articles_by_category",
             "get_search_history", "get_statistics" }

\* the name under which `last` records a call whose try block raised
Raised(op) == op \o " (raised)"

\* a read whose try block raises: the except logs and returns an empty
\* result
read_raises(op, failure, reclaimed) ==
    /\ Idle
    /\ connections < MaxOpen
    /\ last' = Call(Raised(op), failure, <<>>)
    /\ connections' = (IF failure = "connect" THEN connections ELSE LeftOpen(reclaimed))
    /\ UNCHANGED <<articles, search_history, writers, clock>>

\* _init_db whose try block raises: the except logs and raises again
init_db_raises(failure, reclaimed) ==
    /\ Idle
    /\ connections < MaxOpen
    /\ last' = [Call(Raised("init_db"), failure, <<>>) EXCEPT !.raised = TRUE]
    /\ connections' = (IF failure = "connect" THEN connections ELSE LeftOpen(reclaimed))
    /\ UNCHANGED <<articles, search_history, writers, clock>>

\* Database.save_search called by itself
save_search(query, results_count) ==
    /\ Idle
    /\ search_history' = SavedSearch(search_history, query, results_count)
    /\ last' = Call("save_search", <<query, results_count>>, <<>>)
    /\ UNCHANGED <<articles, writers, connections, clock>>

\* save_search whose try block raises: the except logs a warning, no row is
\* written
save_search_raises(query, results_count, failure, reclaimed) ==
    /\ Idle
    /\ connections < MaxOpen
    /\ last' = Call(Raised("save_search"), <<query, results_count>>, <<>>)
    /\ connections' = (IF failure = "connect" THEN connections ELSE LeftOpen(reclaimed))
    /\ UNCHANGED <<articles, search_history, writers, clock>>

\* search_articles whose SELECT raises: an empty frame is returned and
\* save_search is not reached
search_articles_raises(keyword, failure, reclaimed) ==
    /\ Idle
    /\ connections < MaxOpen
    /\ last' = Call(Raised("search_articles"), keyword, <<>>)
    /\ connections' = (IF failure = "connect" THEN connections ELSE LeftOpen(reclaimed))
    /\ UNCHANGED <<articles, search_history, writers, clock>>

\* search_articles whose SELECT succeeds (its connection is closed) and whose
\* save_search raises: the rows are returned, no history row is written
search_articles_unsaved(keyword, failure, reclaimed) ==
    \E rows \in OrderedBy(articles,
                          { i \in DOMAIN articles : Matches(articles[i], keyword) }) :
        /\ Idle
        /\ connections < MaxOpen
        /\ last' = Call(Raised("search_articles"), keyword, rows)
        /\ connections' = (IF failure = "connect" THEN connections ELSE LeftOpen(reclaimed))
        /\ UNCHANGED <<articles, search_history, writers, clock>>

\* the rows of search_history with their id column: ids are given in
\* insertion order and no row is ever deleted
HistoryRows(history) == [ i \in DOMAIN history |-> history[i] @@ ("id" :> i) ]

\* ORDER BY timestamp DESC: every order of the rows with non-increasing
\* timestamps (SQL leaves the order of equal timestamps open)
HistoryOrdered(history) ==
    { [ k \in DOMAIN p |-> HistoryRows(history)[p[k]] ] :
        p \in { q \in Perms(DOMAIN history) :
                  \A i, j \in DOMAIN q :
                      i < j => history[q[i]].timestamp >= history[q[j]].timestamp } }

\* Database.get_search_history
get_search_history(limit) ==
    \E rows \in HistoryOrdered(search_history) :
        Returns("get_search_history", limit, SqlLimit(rows, limit))

\* a second of wall-clock time passes between two operations
Tick ==
    /\ Idle
    /\ clock < MaxClock
    /\ clock' = clock + 1
    /\ UNCHANGED <<articles, search_history, last, writers, connections>>

DefaultHistoryLimit == 10

HistoryLimits == (0..MaxLimit) \cup {DefaultHistoryLimit}

OpsArticles == { SearchArticle("Ab", NoKey, "u1"), SearchArticle("c", "b", "u2") }

OpsKeywords == {"b", "x"}

NextStore ==
    \/ \E batch \in Lists(OpsArticles, MaxSearchBatch), failure \in Failures :
          insert_articles_failing(batch, failure)
    \/ \E limit \in Limits : get_all_articles(limit)
    \/ \E source \in Sources : get_articles_by_source(source)
    \/ \E category \in Categories : get_articles_by_category(category)
    \/ get_statistics
    \/ init_db
    \/ \E keyword \in OpsKeywords :
          /\ Len(search_history) < MaxSearches
          /\ search_articles(keyword)
    \/ \E query \in OpsKeywords :
          /\ Len(search_history) < MaxSearches
          /\ save_search(query, 0)
    \/ \E limit \in HistoryLimits : get_search_history(limit)
    \/ \E op \in ReadOps, failure \in ReadFailures, reclaimed \in BOOLEAN :
          read_raises(op, failure, reclaimed)
    \/ \E failure \in ReadFailures, reclaimed \in BOOLEAN :
          init_db_raises(failure, reclaimed)
    \/ \E query \in OpsKeywords, failure \in ReadFailures, reclaimed \in BOOLEAN :
          save_search_raises(query, 0, failure, reclaimed)
    \/ \E keyword \in OpsKeywords, failure \in ReadFailures, reclaimed \in BOOLEAN :
          search_articles_raises(keyword, failure, reclaimed)
    \/ \E keyword \in OpsKeywords, failure \in ReadFailures, reclaimed \in BOOLEAN :
          search_articles_unsaved(keyword, failure, reclaimed)
    \/ Tick
    \/ Continue

SpecStore == Init /\ [][NextStore]_vars

\* C25: every operation of the store closes the connection it opened on
\* every exit path, also when its query raises: no connection is open once
\* an operation has returned.
C25_NoConnectionLeftOpen == connections = 0

\* What the code does keep of C25: insert_articles closes its connection in
\* a finally block, whatever fails.
InsertClosesConnection ==
    [][last'.op = "insert_articles_failing" => connections' = connections]_vars

\* get_search_history ran its query
HistoryRead == last.op = "get_search_history"

\* C28: get_search_history(limit) returns at most limit records, the most
\* recent first: of two searches the later one comes before the earlier one,
\* also when both were made within the same second.
C28_MostRecentFirst ==
    HistoryRead =>
        /\ Len(last.ret) = Min2(last.arg, Len(search_history))
        /\ \A k \in DOMAIN last.ret :
              last.ret[k] = HistoryRows(search_history)[Len(search_history) + 1 - k]

\* What the code does keep of C28: at most limit records are returned, in
\* non-increasing timestamp order, and a search of a later second comes
\* before a search of an earlier second.
HistoryByTimestamp ==
    HistoryRead =>
        /\ Len(last.ret) = Min2(last.arg, Len(search_history))
        /\ \A k \in DOMAIN last.ret : last.ret[k] \in Range(HistoryRows(search_history))
        /\ \A k, l \in DOMAIN last.ret :
              k < l => /\ last.ret[k].timestamp >= last.ret[l].timestamp
                       /\ last.ret[k].id # last.ret[l].id
        /\ \A k \in DOMAIN last.ret :
              \A i \in DOMAIN search_history :
                  search_history[i].timestamp > last.ret[k].timestamp =>
                      \E l \in 1..(k - 1) : last.ret[l].id = i

\* two searches of different seconds were read back, the later one first
HistoryByTimestampWitness ==
    /\ HistoryRead
    /\ Len(last.ret) = 2
    /\ last.ret[1].id = 2
    /\ last.ret[1].timestamp > last.ret[2].timestamp

\* the calls that run insert_articles
InsertOps ==
    {"insert_articles", "insert_articles_failing", "load_data", "insert_articles_concurrently"}

\* `older` is the beginning of `newer`
Extends(newer, older) ==
    /\ Len(newer) >= Len(older)
    /\ SubSeq(newer, 1, Len(older)) = older

\* C29: no operation of the store updates or deletes a row of the articles
\* table or of the search history: every row stays, with the values it had;
\* insert_articles leaves the search history as it was, and every other
\* operation leaves the articles table as it was.
C29_AppendOnly ==
    [][ /\ Extends(articles', articles)
        /\ Extends(search_history', search_history)
        /\ last'.op \in InsertOps => search_history' = search_history
        /\ last'.op \notin InsertOps => articles' = articles ]_vars

\* a search was recorded in a store that holds rows and an earlier search:
\* the rows and the earlier search are as they were
C29_Witness ==
    /\ last.op = "search_articles"
    /\ articles # <<>>
    /\ articles = last.before
    /\ last.hbefore # <<>>
    /\ Len(search_history) = Len(last.hbefore) + 1
    /\ Extends(search_history, last.hbefore)

----------------------------------------------------------------------------
(* Tags: SpecTags inserts articles that carry tag lists *)

MaxTags == 2

\* tags as Dev.to delivers them, one that holds the delimiter, an empty one
TagTexts == {"python", "ci,cd", ""}

TagArticles ==
    { [title |-> t, source |-> "Dev.to", url |-> t, tags |-> tags] :
        t \in Titles, tags \in Lists(TagTexts, MaxTags) }

NextTags ==
    \/ \E batch \in Lists(TagArticles, MaxBatch) : insert_articles(batch)
    \/ get_all_articles(NoLimit)
    \/ Continue

SpecTags == Init /\ [][NextTags]_vars

\* text.split(","): the pieces between the delimiters, empty ones included;
\* `piece` is the piece being read
RECURSIVE SplitOn(_, _, _)
SplitOn(text, sep, piece) ==
    IF text = "" THEN <<piece>>
    ELSE IF Chr(text, 1) = sep THEN <<piece>> \o SplitOn(Rest(text), sep, "")
    ELSE SplitOn(Rest(text), sep, piece \o Chr(text, 1))

\* the tag sequence a reader gets back from the stored text
SplitTags(text) == SplitOn(text, ",", "")

\* the records of the last batch whose row was added
Stored(batch) ==
    { j \in DOMAIN batch : \E k \in DOMAIN Added : Added[k] = Row(batch[j]) }

\* C26: for every tag sequence of an inserted article, the empty sequence
\* and tags that hold the delimiter included, splitting the stored tags text
\* on the delimiter gives the sequence back.
C26_TagsRoundTrip ==
    Inserted =>
        \A j \in Stored(last.arg) :
            SplitTags(Row(last.arg[j]).tags) = last.arg[j].tags

\* What the code does keep of C26: a sequence of at least one tag, none of
\* which holds the delimiter, is given back by the split.
PlainTagsRoundTrip ==
    Inserted =>
        \A j \in Stored(last.arg) :
            (/\ last.arg[j].tags # <<>>
             /\ \A k \in DOMAIN last.arg[j].tags : ~Contains(last.arg[j].tags[k], ","))
                => SplitTags(Row(last.arg[j]).tags) = last.arg[j].tags

\* an article with two plain tags was stored
PlainTagsWitness ==
    /\ Inserted
    /\ \E j \in Stored(last.arg) : last.arg[j].tags = <<"python", "python">>

----------------------------------------------------------------------------
(* Statistics of the processor: get_statistics, and SpecStatistics *)

\* Series.value_counts().to_dict(): the count of every value, None left out
value_counts(df, col) ==
    [ v \in { df.rows[i][col] : i \in DOMAIN df.rows } \ {NULL} |->
        Cardinality({ i \in DOMAIN df.rows : df.rows[i][col] = v }) ]

\* the values of a numeric column, NaN left out (pandas skips it)
Valued(df, col) == SelectSeq([ i \in DOMAIN df.rows |-> df.rows[i][col] ], LAMBDA v : v # NaN)

RECURSIVE Sum(_)
Sum(values) == IF values = <<>> THEN 0 ELSE Head(values) + Sum(Tail(values))

\* a float that is not a whole number is kept as a fraction
Fraction(num, den) == [num |-> num, den |-> den]

\* Series.mean(): NaN for a column without values
Mean(values) == IF values = <<>> THEN NaN ELSE Fraction(Sum(values), Len(values))

\* the values in non-decreasing order
RECURSIVE Ascending(_)
Ascending(values) ==
    IF values = <<>> THEN <<>>
    ELSE LET i == CHOOSE k \in DOMAIN values : \A l \in DOMAIN values : values[k] <= values[l]
         IN <<values[i]>> \o Ascending(SubSeq(values, 1, i - 1) \o SubSeq(values, i + 1, Len(values)))

\* Series.median()
Median(values) ==
    LET s == Ascending(values)
        n == Len(s)
    IN IF n = 0 THEN NaN
       ELSE IF n % 2 = 1 THEN Fraction(s[(n + 1) \div 2], 1)
       ELSE Fraction(s[n \div 2] + s[n \div 2 + 1], 2)

\* Series.max() / Series.sum() of the values
Max(values) == CHOOSE v \in Range(values) : \A w \in Range(values) : w <= v

\* the entries get_statistics adds for one column when the table has it
StatsOf(df, col, entries) == IF col \in df.columns THEN entries ELSE <<>>

\* DataProcessor.get_statistics: {} for an empty table; int() of the maximum
\* raises ValueError when the points column holds no value at all
processor_get_statistics(df) ==
    IF IsEmpty(df) THEN Value(<<>>)
    ELSE IF "points" \in df.columns /\ Valued(df, "points") = <<>> THEN Raise
    ELSE Value(
        ("total_articles" :> Len(df.rows))
        @@ ("sources" :> (IF "source" \in df.columns THEN value_counts(df, "source")
                          ELSE <<>>))
        @@ StatsOf(df, "points",
                   ("avg_points" :> Mean(Valued(df, "points")))
                   @@ ("median_points" :> Median(Valued(df, "points")))
                   @@ ("max_points" :> Max(Valued(df, "points"))))
        @@ StatsOf(df, "reactions",
                   ("avg_reactions" :> Mean(Valued(df, "reactions")))
                   @@ ("total_reactions" :> Sum(Valued(df, "reactions"))))
        @@ StatsOf(df, "comments",
                   ("avg_comments" :> Mean(Valued(df, "comments")))
                   @@ ("total_comments" :> Sum(Valued(df, "comments"))))
        @@ StatsOf(df, "category", ("categories" :> value_counts(df, "category"))) )

\* the columns a table handed to get_statistics may or may not have
StatColumns == {"source", "points", "reactions", "comments", "category"}

\* a record of the table: its title, and a value for each column it has
StatRecord(t, p, cols) ==
    [ c \in cols \cup {"title"} |->
        IF c = "title" THEN t
        ELSE IF c = "source" THEN (IF p = 1 THEN "HackerNews" ELSE "Dev.to")
        ELSE IF c = "points" THEN p
        ELSE IF c = "reactions" THEN 5
        ELSE IF c = "comments" THEN 3 * p
        ELSE "Other" ]

\* tables of at most MaxRows rows over the same columns
StatTables ==
    { [ i \in DOMAIN ps |-> StatRecord(IF i = 1 THEN "T1" ELSE "T2", ps[i], cols) ] :
        ps \in Lists(PointChoices, MaxRows), cols \in SUBSET StatColumns }

\* processor.get_statistics(df) on the frame of a record list
call_processor_get_statistics(records) ==
    LET df == articles_to_dataframe(records)
        r == processor_get_statistics(df)
    IN /\ Idle
       /\ last' = [Call("processor.get_statistics", df, r.value) EXCEPT !.raised = r.raised]
       /\ UNCHANGED <<articles, search_history, writers, connections, clock>>

NextStatistics ==
    \/ \E records \in StatTables : call_processor_get_statistics(records)
    \/ Continue

SpecStatistics == Init /\ [][NextStatistics]_vars

Summarized == last.op = "processor.get_statistics" /\ ~IsEmpty(last.arg)

\* the column each per-column entry of the result is computed from
EntryColumn ==
    [ sources |-> "source", categories |-> "category",
      avg_points |-> "points", median_points |-> "points", max_points |-> "points",
      avg_reactions |-> "reactions", total_reactions |-> "reactions",
      avg_comments |-> "comments", total_comments |-> "comments" ]

\* C27: for a non-empty table the result of get_statistics has the entry of
\* a per-column aggregate only when the table has the column: an absent
\* column gives no entry, not an empty or zero-valued one.
C27_AbsentColumnNoEntry ==
    Summarized =>
        \A e \in DOMAIN EntryColumn :
            e \in DOMAIN last.ret => EntryColumn[e] \in last.arg.columns

\* What the code does keep of C27: every per-column entry other than the
\* per-source counts is in the result exactly when the table has its column.
OtherEntriesFollowColumns ==
    Summarized =>
        /\ "total_articles" \in DOMAIN last.ret
        /\ "sources" \in DOMAIN last.ret
        /\ \A e \in DOMAIN EntryColumn \ {"sources"} :
              e \in DOMAIN last.ret <=> EntryColumn[e] \in last.arg.columns

\* a table with points and without reactions was summarized
OtherEntriesWitness ==
    /\ Summarized
    /\ last.arg.columns = {"title", "points"}
    /\ Len(last.arg.rows) = 2
    /\ last.ret.max_points = 2
    /\ last.ret.avg_points = Fraction(3, 2)

====
